---- MODULE Spec2Model ----
(***************************************************************************)
(* MiniBit: a BitTorrent-like swarm for one file.  The module models the   *)
(* peer-side components of the repository:                                 *)
(*   - BlockManager      (src/minibit/src/peer/block_manager.py)           *)
(*   - PeerCommunication (src/minibit/src/peer/communication.py)           *)
(*   - PeerStrategies    (src/minibit/src/peer/strategies.py)              *)
(*   - PeerNode          (src/minibit/src/peer/peer_node.py)               *)
(*   - Peer              (src/minibit-final/peer/peer.py)                  *)
(* Each component has its own specification (SpecStore, SpecWire, ...);    *)
(* a specification leaves the variables of the other components alone.     *)
(***************************************************************************)
EXTENDS Integers, Sequences, FiniteSets, TLC

(***************************************************************************)
(* Bounds of the model.                                                    *)
(***************************************************************************)
MaxFileLen == 3          \* longest original file, in bytes
MaxBlockSize == 2        \* largest block size of a file descriptor

Min(a, b) == IF a < b THEN a ELSE b
Max(a, b) == IF a > b THEN a ELSE b

\* The file of n bytes of increasing values 0x00, 0x01, ...
FileContent(n) == [i \in 1..n |-> i - 1]

\* A block of one byte that no file of the model holds: a tampered block.
TamperedData == <<255>>

\* Python's None where a byte string is expected (no byte is negative).
NoData == <<-1>>

\* hashlib.sha256(...).hexdigest(): collision free on the model's byte strings.
Sha256(data) == <<"sha256", data>>

\* The hash of a file that was never set (file_hash = None).
NoHash == <<"none", <<>>>>

(***************************************************************************)
(* State                                                                   *)
(***************************************************************************)
\* BlockManager
VARIABLES
    fileinfo,        \* the file descriptor of the swarm: [content, block_size]
    blocks_owned,    \* BlockManager.blocks_owned
    total_blocks,    \* BlockManager.total_blocks
    block_size,      \* BlockManager.block_size
    file_name,       \* BlockManager.file_name is set (TRUE) or None (FALSE)
    file_hash,       \* BlockManager.file_hash
    blocks_data,     \* BlockManager.blocks_data: block id -> bytes (in memory)
    block_files,     \* the files block_<id>.dat of blocks_dir: block id -> bytes
    reconstructed,   \* the bytes of the reconstructed output file, NoData if none
    ret              \* the last BlockManager call and what it returned

storeVars == <<fileinfo, blocks_owned, total_blocks, block_size, file_name,
               file_hash, blocks_data, block_files, reconstructed, ret>>

\* PeerCommunication
VARIABLES
    connections,     \* PeerCommunication.connections: peer id -> PeerConnection
    message_queue,   \* PeerCommunication.message_queue: <<peer id, message>>, FIFO
    readers          \* the running _handle_peer_connection threads: <<peer id, socket>>

wireVars == <<connections, message_queue, readers>>

\* PeerStrategies, and the PeerNode fields its callers hold
VARIABLES
    now,                      \* time.time(), in seconds since the peer was built
    peer_blocks,              \* PeerStrategies.peer_blocks: peer -> block ids
    peer_download_rates,      \* PeerStrategies.peer_download_rates: peer -> <<bytes, seconds>>
    peer_upload_rates,        \* PeerStrategies.peer_upload_rates: peer -> <<bytes, seconds>>
    unchoked_peers,           \* PeerStrategies.unchoked_peers
    interested_peers,         \* PeerStrategies.interested_peers
    optimistic_unchoke_peer,  \* PeerStrategies.optimistic_unchoke_peer, NoPeer for None
    last_unchoke_update,      \* PeerStrategies.last_unchoke_update
    last_optimistic_update,   \* PeerStrategies.last_optimistic_update
    successful_downloads,     \* PeerStrategies.successful_downloads: peer -> count
    failed_requests,          \* PeerStrategies.failed_requests: peer -> count
    download_history,         \* PeerStrategies.download_history: peer -> <<timestamp, bytes>>*
    upload_history,           \* PeerStrategies.upload_history: peer -> <<timestamp, bytes>>*
    connected_peers,          \* PeerNode.connected_peers
    pending_requests,         \* PeerNode.pending_requests: peer -> block ids
    active_downloads,         \* PeerNode.active_downloads: block id -> peer, NoPeer if none
    sent_requests             \* the REQUESTs sent, oldest first: <<peer, block id>>

stratVars == <<now, peer_blocks, peer_download_rates, peer_upload_rates, unchoked_peers,
               interested_peers, optimistic_unchoke_peer, last_unchoke_update,
               last_optimistic_update, successful_downloads, failed_requests,
               download_history, upload_history, connected_peers, pending_requests,
               active_downloads, sent_requests>>

\* Peer (minibit-final)
VARIABLES
    blocks,           \* Peer.blocks
    peers_known,      \* Peer.peers_known
    allowed_peers,    \* Peer.allowed_peers
    optimistic_peer,  \* Peer.optimistic_peer, NoPeer for None
    blocked_by,       \* Peer.blocked_by
    disk_blocks,      \* the block ids whose file files/blocks/<name>_block_<id> exists
    reply,            \* the last request _handle_request took and what it sent back
    running,          \* Peer.running
    lock,             \* Peer.lock: the thread inside "with self.lock"
    server_pc,        \* where the _server_loop thread is
    update_thread     \* where the update_peers_loop thread is, and its locals

threadVars == <<running, lock, server_pc, update_thread>>

finalVars == <<blocks, peers_known, allowed_peers, optimistic_peer, blocked_by,
               disk_blocks, reply, threadVars>>

\* The minibit-final tracker (tracker/tracker.py) and the wall clock.
VARIABLES
    wall_clock,       \* time.time()
    active_peers,     \* active_peers: port -> time of the last contact
    sweep_due,        \* the time remove_inactive_peers wakes up next
    peer_list         \* the last peer list handle_peer_connection sent, and to whom

trackerVars == <<wall_clock, active_peers, sweep_due, peer_list>>

\* The peer of algoritmos_rarest_first_e_tit_for_tat (peer_node.py).
VARIABLES
    known_peers,      \* Peer.known_peers (the peer ids)
    last_peer_update, \* Peer.last_peer_update
    manager_running,  \* the download_manager thread is alive
    known_blocks,     \* peer id -> known_peers[peer_id]["blocks"]
    unchoked,         \* TitForTat.unchoked
    tit_optimistic_peer,     \* TitForTat.optimistic_peer
    download_rates,   \* TitForTat.download_rates: its items, in insertion order
    unchoke_history,  \* TitForTat.unchoke_history: peer id -> times
    tit_last_unchoke_update, \* TitForTat.last_unchoke_update
    last_optimistic   \* TitForTat.last_optimistic

titVars == <<known_blocks, unchoked, tit_optimistic_peer, download_rates,
             unchoke_history, tit_last_unchoke_update, last_optimistic>>

nodeVars == <<known_peers, last_peer_update, manager_running, titVars>>

\* A swarm of minibit-final peers and their tracker.
VARIABLES
    peer_state,       \* port -> the fields of the Peer object
    peer_files,       \* port -> files/blocks of the peer: block id -> bytes
    downloads,        \* port -> the file assemble_file wrote, NoData for none
    tracker_up,       \* the tracker accepts connections
    source_file       \* the bytes of the file the seed was started with

swarmVars == <<peer_state, peer_files, downloads, tracker_up, source_file>>

vars == <<storeVars, wireVars, stratVars, finalVars, trackerVars, nodeVars, swarmVars>>

(***************************************************************************)
(* BlockManager                                                            *)
(***************************************************************************)
DefaultBlockSize == 1024

\* f with the entry k -> v set (a Python dict assignment f[k] = v).
Put(f, k, v) == [x \in (DOMAIN f) \cup {k} |-> IF x = k THEN v ELSE f[x]]

\* A slice that pads a short last block with zero bytes up to size bytes.
PaddedSlice(content, i, size) ==
    [j \in 1..size |-> IF i + j <= Len(content) THEN content[i + j] ELSE 0]

\* content[i:i+size] for the 0-based offset i.
Slice(content, i, size) == SubSeq(content, i + 1, Min(i + size, Len(content)))

\* len(range(0, length, size)).
RangeCount(length, size) == (length + size - 1) \div size

\* The blocks split_file_into_blocks and FileUtils.split_file_to_blocks cut.
SplitBlocks(content, size) ==
    [k \in 0..(RangeCount(Len(content), size) - 1) |-> Slice(content, k * size, size)]

\* FileInfo.block_hashes
BlockHashes(info) ==
    [k \in DOMAIN SplitBlocks(info.content, info.block_size) |->
        Sha256(SplitBlocks(info.content, info.block_size)[k])]

\* FileInfo.validate_block
ValidateBlock(info, block_id, block_data) ==
    /\ block_id \in DOMAIN BlockHashes(info)
    /\ Sha256(block_data) = BlockHashes(info)[block_id]

Ret(op, ok) == [op |-> op, ok |-> ok]

\* BlockManager.get_block: the bytes returned, NoData for None.
GetBlock(owned, data, files, block_id) ==
    IF block_id \notin owned THEN NoData
    ELSE IF block_id \in DOMAIN data THEN data[block_id]
    ELSE IF block_id \in DOMAIN files THEN files[block_id]
    ELSE NoData

\* BlockManager.get_block: blocks_data after the call (a block read from disk
\* is kept in memory).
GetBlockCache(owned, data, files, block_id) ==
    IF block_id \in owned /\ block_id \notin DOMAIN data /\ block_id \in DOMAIN files
    THEN Put(data, block_id, files[block_id])
    ELSE data

\* "if not block_data": None or the empty byte string.
Falsy(data) == data = NoData \/ data = <<>>

RECURSIVE ReconLoop(_, _, _, _, _, _)
\* The loop of reconstruct_file from block k on: [out, data, ok] where out is
\* what was written to the output file, data the blocks_data cache and ok is
\* FALSE when a block was not found.
ReconLoop(k, n, owned, data, files, out) ==
    IF k >= n THEN [out |-> out, data |-> data, ok |-> TRUE]
    ELSE LET d == GetBlock(owned, data, files, k)
             c == GetBlockCache(owned, data, files, k)
         IN IF Falsy(d) THEN [out |-> out, data |-> c, ok |-> FALSE]
            ELSE ReconLoop(k + 1, n, owned, c, files, out \o d)

\* BlockManager.reconstruct_file on the state (owned, n, data, files):
\* [ok, out, data]; out = NoData when no output file was opened.
Reconstruct(owned, n, named, fhash, data, files) ==
    IF Cardinality(owned) # n THEN [ok |-> FALSE, out |-> NoData, data |-> data]
    ELSE IF ~named THEN [ok |-> FALSE, out |-> NoData, data |-> data]
    ELSE LET r == ReconLoop(0, n, owned, data, files, <<>>)
         IN IF ~r.ok THEN [ok |-> FALSE, out |-> r.out, data |-> r.data]
            ELSE IF fhash # NoHash /\ Sha256(r.out) # fhash
                 THEN [ok |-> FALSE, out |-> r.out, data |-> r.data]
                 ELSE [ok |-> TRUE, out |-> r.out, data |-> r.data]

\* BlockManager.is_complete
IsComplete == Cardinality(blocks_owned) = total_blocks /\ total_blocks > 0

\* Every block id of the file, owned or not.
EveryBlockMissing == 0..(total_blocks - 1)

\* BlockManager.get_missing_blocks, as the set of the ids of the sorted list.
MissingBlocks == IF total_blocks = 0 THEN {} ELSE (0..(total_blocks - 1)) \ blocks_owned

\* list.sort() of a list of distinct integers
RECURSIVE SortedList(_)
SortedList(ids) ==
    IF ids = {} THEN <<>>
    ELSE LET least == CHOOSE a \in ids : \A b \in ids : a <= b
         IN <<least>> \o SortedList(ids \ {least})

\* BlockManager.get_missing_blocks(): the list returned
GetMissingBlocksList == SortedList(MissingBlocks)

\* A store that takes no block for owned.
NeverOwned(block_id) == FALSE

\* add_block: "if block_id in self.blocks_owned"
AlreadyOwned(block_id) == block_id \in blocks_owned

\* BlockManager.split_file_into_blocks(file_path, block_size) on the file and
\* with the block size of the descriptor.
SplitFileIntoBlocks ==
    LET size == fileinfo.block_size
        split_blocks == SplitBlocks(fileinfo.content, size)
    IN /\ file_name' = TRUE
       /\ block_size' = size
       /\ file_hash' = Sha256(fileinfo.content)
       /\ total_blocks' = RangeCount(Len(fileinfo.content), size)
       /\ block_files' = [k \in (DOMAIN block_files) \cup (DOMAIN split_blocks) |->
                            IF k \in DOMAIN split_blocks THEN split_blocks[k] ELSE block_files[k]]
       /\ blocks_data' = [k \in (DOMAIN blocks_data) \cup (DOMAIN split_blocks) |->
                            IF k \in DOMAIN split_blocks THEN split_blocks[k] ELSE blocks_data[k]]
       /\ blocks_owned' = blocks_owned \cup DOMAIN split_blocks
       /\ ret' = Ret("split_file_into_blocks", TRUE)
       /\ UNCHANGED <<fileinfo, reconstructed, wireVars, stratVars, finalVars,
                   trackerVars, nodeVars, swarmVars>>

\* BlockManager.add_block(block_id, data)
AddBlock(block_id, data) ==
    IF block_id < 0 \/ block_id >= total_blocks
    THEN /\ ret' = Ret("add_block", FALSE)
         /\ UNCHANGED <<fileinfo, blocks_owned, total_blocks, block_size, file_name,
                        file_hash, blocks_data, block_files, reconstructed, wireVars, stratVars, finalVars,
                        trackerVars, nodeVars, swarmVars>>
    ELSE IF AlreadyOwned(block_id)
    THEN /\ ret' = Ret("add_block", TRUE)
         /\ UNCHANGED <<fileinfo, blocks_owned, total_blocks, block_size, file_name,
                        file_hash, blocks_data, block_files, reconstructed, wireVars, stratVars, finalVars,
                        trackerVars, nodeVars, swarmVars>>
    ELSE LET owned == blocks_owned \cup {block_id}
             files == Put(block_files, block_id, data)
             cache == Put(blocks_data, block_id, data)
             r == Reconstruct(owned, total_blocks, file_name, file_hash, cache, files)
             full == Cardinality(owned) = total_blocks
         IN /\ block_files' = files
            /\ blocks_owned' = owned
            /\ blocks_data' = IF full THEN r.data ELSE cache
            /\ reconstructed' = IF full /\ r.out # NoData THEN r.out ELSE reconstructed
            /\ ret' = Ret("add_block", TRUE)
            /\ UNCHANGED <<fileinfo, total_blocks, block_size, file_name, file_hash, wireVars, stratVars, finalVars,
                   trackerVars, nodeVars, swarmVars>>

\* BlockManager.get_block(block_id)
GetBlockCall(block_id) ==
    /\ blocks_data' = GetBlockCache(blocks_owned, blocks_data, block_files, block_id)
    /\ ret' = Ret("get_block",
                  GetBlock(blocks_owned, blocks_data, block_files, block_id) # NoData)
    /\ UNCHANGED <<fileinfo, blocks_owned, total_blocks, block_size, file_name,
                   file_hash, block_files, reconstructed, wireVars, stratVars, finalVars,
                   trackerVars, nodeVars, swarmVars>>

\* BlockManager.reconstruct_file()
ReconstructFile ==
    LET r == Reconstruct(blocks_owned, total_blocks, file_name, file_hash,
                         blocks_data, block_files)
    IN /\ blocks_data' = r.data
       /\ reconstructed' = IF r.out # NoData THEN r.out ELSE reconstructed
       /\ ret' = Ret("reconstruct_file", r.ok)
       /\ UNCHANGED <<fileinfo, blocks_owned, total_blocks, block_size, file_name,
                      file_hash, block_files, wireVars, stratVars, finalVars,
                      trackerVars, nodeVars, swarmVars>>

\* 2^k
RECURSIVE Pow2(_)
Pow2(k) == IF k = 0 THEN 1 ELSE 2 * Pow2(k - 1)

\* bitfield[byte_idx] & (1 << (7 - bit_idx)), as a truth value; bytes are
\* 0..255 and the sequence is indexed from 1.
BitSet(bitfield, block_id) ==
    (bitfield[(block_id \div 8) + 1] \div Pow2(7 - (block_id % 8))) % 2 = 1

\* The block ids set_from_bitfield reads out of a bitfield for total blocks n.
DecodeOwned(bitfield, n) ==
    {b \in 0..(n - 1) : (b \div 8) < Len(bitfield) /\ BitSet(bitfield, b)}

\* BlockManager.set_from_bitfield(bitfield, total_blocks)
SetFromBitfield(bitfield, n) ==
    /\ total_blocks' = n
    /\ blocks_owned' = DecodeOwned(bitfield, n)
    /\ ret' = Ret("set_from_bitfield", TRUE)
    /\ UNCHANGED <<fileinfo, block_size, file_name, file_hash, blocks_data,
                   block_files, reconstructed, wireVars, stratVars, finalVars,
                   trackerVars, nodeVars, swarmVars>>

\* BlockManager.get_bitfield for the owned set `owned` of n blocks: byte k
\* holds the blocks 8k..8k+7, the first of them in its highest bit.
RECURSIVE ByteOf(_, _, _)
ByteOf(owned, k, bit) ==
    IF bit > 7 THEN 0
    ELSE (IF (8 * k + bit) \in owned THEN Pow2(7 - bit) ELSE 0) + ByteOf(owned, k, bit + 1)

Bitfield(owned, n) == [k \in 1..((n + 7) \div 8) |-> ByteOf(owned, k - 1, 0)]

\* The bits of the last byte of an n-block bitfield that stand for no block.
TrailingBits(n) == IF n % 8 = 0 THEN 0 ELSE Pow2(8 - (n % 8)) - 1

\* The number of blocks of the file descriptor (FileInfo.total_blocks).
FileBlocks == RangeCount(Len(fileinfo.content), fileinfo.block_size)

\* The bitfields handed to set_from_bitfield: the empty one, the bitfield of
\* every subset of the file's blocks, and a byte with only its trailing bits
\* set.
StoreBitfields ==
    {<<>>} \cup
    {Bitfield(S, FileBlocks) : S \in SUBSET (0..(FileBlocks - 1))} \cup
    {<<TrailingBits(FileBlocks)>>}

\* The bytes a PIECE for block b may carry: the block of the file, a tampered
\* block, nothing.
PieceData(b) ==
    {TamperedData, <<>>} \cup
    {SplitBlocks(fileinfo.content, fileinfo.block_size)[k] : k \in {b} \cap (0..(FileBlocks - 1))}

\* BlockManager.__init__ with no saved state, for every file descriptor.
StoreInit ==
    /\ fileinfo \in {[content |-> FileContent(s), block_size |-> size] :
                        s \in 0..MaxFileLen, size \in 1..MaxBlockSize}
    /\ blocks_owned = {}
    /\ total_blocks = 0
    /\ block_size = DefaultBlockSize
    /\ file_name = FALSE
    /\ file_hash = NoHash
    /\ blocks_data = <<>>
    /\ block_files = <<>>
    /\ reconstructed = NoData
    /\ ret = Ret("init", TRUE)

StoreNext ==
    \/ SplitFileIntoBlocks
    \/ \E b \in (-1)..FileBlocks : \E data \in PieceData(b) : AddBlock(b, data)
    \/ \E b \in 0..FileBlocks : GetBlockCall(b)
    \/ ReconstructFile
    \/ \E bitfield \in StoreBitfields : SetFromBitfield(bitfield, FileBlocks)

(***************************************************************************)
(* PeerCommunication: the connections of one peer and its message queue    *)
(***************************************************************************)
MaxQueue == 2            \* messages waiting in message_queue

\* Peer ids.  Python compares the ids as strings in the sort of (score, id)
\* pairs; the integers stand for ids in that order.  NoPeer is None.
AllPeers == {1, 2, 3, 4, 5}
NoPeer == 0

\* The remote peers of the wire model.
WirePeers == {1}

\* PeerConnection.bitfield = None
NoBitfield == <<-1>>

\* message.data.get('block_id') = None
NoBlock == -1

\* The socket of a connection: the one connect_to_peer opened to the peer, or
\* one the server accepted from it.  A peer has at most one of each.
Outbound == "outbound"
Inbound == "inbound"

\* PeerConnection.__init__, for the socket of connect_to_peer
NewConnection ==
    [is_active |-> TRUE, choked |-> TRUE, interested |-> FALSE,
     bitfield |-> NoBitfield, blocks_owned |-> {}, socket |-> Outbound]

\* the reader threads of the registered connections
ReadersOf(conns) == {<<p, conns[p].socket>> : p \in DOMAIN conns}

\* Queue.put(item) and, for the reverse order, a put at the head
QueuePutFirst(queue, item) == <<item>> \o queue
QueuePut(queue, item) == Append(queue, item)

\* Message(type, data) with the data fields the handlers read.
Msg(type, bitfield, block_id) ==
    [type |-> type, bitfield |-> bitfield, block_id |-> block_id]

\* The block ids _update_connection_state reads out of a BITFIELD payload.
DecodeBitfield(bitfield) ==
    {b \in 0..(Len(bitfield) * 8 - 1) : (b \div 8) < Len(bitfield) /\ BitSet(bitfield, b)}

\* HAVE dropped: the advertised set is left as it was.
HaveIgnored(owned, block_id) == owned

\* connection.blocks_owned.add(block_id) of a HAVE
HaveAdded(owned, block_id) == owned \cup {block_id}

\* PeerCommunication._update_connection_state on the connection record.
UpdateConnectionState(conn, message) ==
    CASE message.type = "bitfield" ->
            [conn EXCEPT !.bitfield = message.bitfield,
                         !.blocks_owned = DecodeBitfield(message.bitfield)]
      [] message.type = "have" ->
            IF message.block_id # NoBlock
            THEN [conn EXCEPT !.blocks_owned = HaveAdded(@, message.block_id)]
            ELSE conn
      [] message.type = "choke" -> [conn EXCEPT !.choked = TRUE]
      [] message.type = "unchoke" -> [conn EXCEPT !.choked = FALSE]
      [] message.type = "interested" -> [conn EXCEPT !.interested = TRUE]
      [] message.type = "not_interested" -> [conn EXCEPT !.interested = FALSE]
      [] OTHER -> conn

\* The BITFIELD payloads and the HAVE block ids a remote peer sends.
WireBitfields == {<<>>, <<160>>, <<65, 128>>}
WireHaveIds == {9, NoBlock}

WireMessages ==
    {Msg("bitfield", b, NoBlock) : b \in WireBitfields} \cup
    {Msg("have", <<>>, i) : i \in WireHaveIds} \cup
    {Msg(t, <<>>, NoBlock) :
        t \in {"choke", "unchoke", "interested", "not_interested"}}

\* connect_to_peer: the socket to peer p is connected, the connection is
\* registered, the HANDSHAKE is sent and the reader thread is started.
\* connect_to_peer keeps a connection that is already registered.
RegisterConnection(p) ==
    /\ p \notin DOMAIN connections
    /\ <<p, Outbound>> \notin readers
    /\ connections' = Put(connections, p, NewConnection)
    /\ readers' = readers \cup {<<p, Outbound>>}
    /\ UNCHANGED <<message_queue, storeVars, stratVars, finalVars,
                   trackerVars, nodeVars, swarmVars>>

\* _handle_peer_connection: the reader of p's connection receives a message
\* and queues it.
ReaderReceive(p, message) ==
    /\ p \in DOMAIN connections
    /\ connections[p].is_active
    /\ Len(message_queue) < MaxQueue
    /\ message_queue' = QueuePut(message_queue, <<p, message>>)
    /\ UNCHANGED <<connections, readers, storeVars, stratVars, finalVars,
                   trackerVars, nodeVars, swarmVars>>

\* _handle_peer_connection: the connection is lost; the reader closes it and
\* removes the peer's entry.
ReaderClose(p) ==
    /\ p \in DOMAIN connections
    /\ connections' = [q \in (DOMAIN connections) \ {p} |-> connections[q]]
    /\ readers' = readers \ {<<p, connections[p].socket>>}
    /\ UNCHANGED <<message_queue, storeVars, stratVars, finalVars,
                   trackerVars, nodeVars, swarmVars>>

\* _handle_peer_connection when receive_message reads a zero-length frame:
\* "return Message(MessageType.KEEPALIVE, {})" raises, MessageType
\* (common/messages.py) has no member KEEPALIVE; receive_message catches the
\* exception, sets is_active = False and returns None, and the reader takes
\* None for a lost connection: it closes it and removes the peer's entry.
ReceiveKeepAlive(p) ==
    /\ p \in DOMAIN connections
    /\ connections[p].is_active
    /\ connections' = [q \in (DOMAIN connections) \ {p} |-> connections[q]]
    /\ readers' = readers \ {<<p, connections[p].socket>>}
    /\ UNCHANGED <<message_queue, storeVars, stratVars, finalVars,
                   trackerVars, nodeVars, swarmVars>>

\* self.peer_id of the local peer, which is none of the remote peers
LocalPeer == 6

\* _handle_incoming_connection: the first message of an accepted socket is
\* read.  A HANDSHAKE that carries the id of another peer is answered and the
\* connection is registered under that id, in the place of any connection
\* registered there, and read by this thread; otherwise the socket is closed.
\* type = "none": nothing was received.
HandleIncomingConnection(type, peer_id) ==
    /\ IF type = "handshake" /\ peer_id # NoPeer /\ peer_id # LocalPeer
       THEN /\ <<peer_id, Inbound>> \notin readers
            /\ connections' = Put(connections, peer_id,
                                  [NewConnection EXCEPT !.socket = Inbound])
            /\ readers' = readers \cup {<<peer_id, Inbound>>}
       ELSE UNCHANGED <<connections, readers>>
    /\ UNCHANGED <<message_queue, storeVars, stratVars, finalVars,
                   trackerVars, nodeVars, swarmVars>>

\* the connection reader r reads is not the one registered under its peer id
Replaced(r) ==
    ~(r[1] \in DOMAIN connections /\ connections[r[1]].socket = r[2])

\* _handle_peer_connection of a connection that is no longer the registered
\* one: the reader receives a message and queues it under the peer id.
ReplacedReaderReceive(r, message) ==
    /\ r \in readers
    /\ Replaced(r)
    /\ Len(message_queue) < MaxQueue
    /\ message_queue' = QueuePut(message_queue, <<r[1], message>>)
    /\ UNCHANGED <<connections, readers, storeVars, stratVars, finalVars,
                   trackerVars, nodeVars, swarmVars>>

\* _handle_peer_connection of a connection that is no longer the registered
\* one: the connection is lost; the reader closes it and removes the entry
\* found under connection.peer_id.
ReplacedReaderClose(r) ==
    /\ r \in readers
    /\ Replaced(r)
    /\ connections' = [q \in (DOMAIN connections) \ {r[1]} |-> connections[q]]
    /\ readers' = readers \ {r}
    /\ UNCHANGED <<message_queue, storeVars, stratVars, finalVars,
                   trackerVars, nodeVars, swarmVars>>

\* _message_processor: one message is taken from the queue and applied.
MessageProcessor ==
    /\ message_queue # <<>>
    /\ LET p == Head(message_queue)[1]
           message == Head(message_queue)[2]
       IN connections' =
            IF p \in DOMAIN connections
            THEN [connections EXCEPT ![p] = UpdateConnectionState(@, message)]
            ELSE connections
    /\ message_queue' = Tail(message_queue)
    /\ UNCHANGED <<readers, storeVars, stratVars, finalVars, trackerVars, nodeVars,
                   swarmVars>>

\* what the first message of an accepted socket can be
FirstMessages == {"handshake", "bitfield", "none"}

WireInit ==
    /\ connections = <<>>
    /\ message_queue = <<>>
    /\ readers = {}

WireNext ==
    \/ \E p \in WirePeers : RegisterConnection(p)
    \/ \E p \in WirePeers, message \in WireMessages : ReaderReceive(p, message)
    \/ \E p \in WirePeers : ReaderClose(p)
    \/ \E p \in WirePeers : ReceiveKeepAlive(p)
    \/ \E type \in FirstMessages, peer_id \in WirePeers \cup {LocalPeer, NoPeer} :
          HandleIncomingConnection(type, peer_id)
    \/ \E r \in WirePeers \X {Outbound, Inbound}, message \in WireMessages :
          ReplacedReaderReceive(r, message)
    \/ \E r \in WirePeers \X {Outbound, Inbound} : ReplacedReaderClose(r)
    \/ MessageProcessor

(***************************************************************************)
(* PeerStrategies                                                          *)
(***************************************************************************)
\* Bounds of the clock: time advances in steps of TimeStep seconds up to
\* MaxTime; at most MaxRecords transfers are recorded per peer.
TimeStep == 10
MaxTime == 40
MaxRecords == 3


\* PeerStrategies.__init__
max_unchoked == 4
unchoke_interval == 10
optimistic_interval == 30
\* the windows of _update_download_rate and _calculate_tit_for_tat_score, and
\* the number of records record_download and record_upload keep
RateWindow == 30
ScoreWindow == 60
HistoryLimit == 10

\* A rate total_bytes / time_span is kept as the pair <<total_bytes, time_span>>
\* with time_span >= 1, and rates are compared by cross-multiplication (the
\* rounding of the float division is left out).
ZeroRate == <<0, 1>>

RECURSIVE Gcd(_, _)
Gcd(a, b) == IF b = 0 THEN a ELSE Gcd(b, a % b)

\* the same fraction in lowest terms
Reduced(rate) ==
    LET g == Gcd(rate[1], rate[2]) IN <<rate[1] \div g, rate[2] \div g>>

RateGreater(a, b) == a[1] * b[2] > b[1] * a[2]
RateEqual(a, b) == a[1] * b[2] = b[1] * a[2]

\* The dictionaries of PeerStrategies are total here: an absent key is the value
\* that .get(peer, default) and defaultdict give for it.
EmptyStrategies ==
    /\ peer_blocks = [p \in AllPeers |-> {}]
    /\ peer_download_rates = [p \in AllPeers |-> ZeroRate]
    /\ peer_upload_rates = [p \in AllPeers |-> ZeroRate]
    /\ unchoked_peers = {}
    /\ interested_peers = {}
    /\ optimistic_unchoke_peer = NoPeer
    /\ last_unchoke_update = 0
    /\ last_optimistic_update = 0
    /\ successful_downloads = [p \in AllPeers |-> 0]
    /\ failed_requests = [p \in AllPeers |-> 0]
    /\ download_history = [p \in AllPeers |-> <<>>]
    /\ upload_history = [p \in AllPeers |-> <<>>]

\* PeerNode.__init__
EmptyNode ==
    /\ connected_peers = {}
    /\ pending_requests = [p \in AllPeers |-> {}]
    /\ active_downloads = <<>>
    /\ sent_requests = <<>>

RECURSIVE SumBytes(_)
SumBytes(history) ==
    IF history = <<>> THEN 0 ELSE history[1][2] + SumBytes(Tail(history))

RECURSIVE MinTimestamp(_)
MinTimestamp(history) ==
    IF Len(history) = 1 THEN history[1][1]
    ELSE Min(history[1][1], MinTimestamp(Tail(history)))

RecentHistory(history, current_time, window) ==
    SelectSeq(history, LAMBDA record : current_time - record[1] <= window)

\* total_bytes / max(1, current_time - min(ts)) over the records of the window
WindowRate(history, current_time, window) ==
    LET recent_history == RecentHistory(history, current_time, window)
    IN IF recent_history = <<>> THEN ZeroRate
       ELSE <<SumBytes(recent_history),
              Max(1, current_time - MinTimestamp(recent_history))>>

\* _update_download_rate and _update_upload_rate: the value written to the
\* rate dictionary
UpdateDownloadRate(history, current_time) == WindowRate(history, current_time, RateWindow)
UpdateUploadRate(history, current_time) == WindowRate(history, current_time, RateWindow)

\* history[-10:] once the list is longer than 10
KeepLast(history) ==
    IF Len(history) > HistoryLimit
    THEN SubSeq(history, Len(history) - HistoryLimit + 1, Len(history))
    ELSE history

\* The download credited whether the PIECE was accepted or not.
CreditedAlways(history, current_time, bytes_downloaded, success) ==
    KeepLast(Append(history, <<current_time, bytes_downloaded>>))

\* record_download: the download_history list of the peer after the call
CreditedHistory(history, current_time, bytes_downloaded, success) ==
    IF success THEN KeepLast(Append(history, <<current_time, bytes_downloaded>>))
    ELSE history

\* record_download(peer_id, block_id, bytes_downloaded, success)
RecordDownload(peer_id, bytes_downloaded, success) ==
    LET history == CreditedHistory(download_history[peer_id], now,
                                   bytes_downloaded, success)
    IN /\ Len(download_history[peer_id]) + failed_requests[peer_id]
             + Len(upload_history[peer_id]) < MaxRecords
       /\ IF success
          THEN /\ successful_downloads' =
                     [successful_downloads EXCEPT ![peer_id] = @ + 1]
               /\ UNCHANGED failed_requests
          ELSE /\ failed_requests' = [failed_requests EXCEPT ![peer_id] = @ + 1]
               /\ UNCHANGED successful_downloads
       /\ download_history' = [download_history EXCEPT ![peer_id] = history]
       /\ peer_download_rates' =
             [peer_download_rates EXCEPT ![peer_id] = UpdateDownloadRate(history, now)]
       /\ UNCHANGED <<now, peer_blocks, peer_upload_rates, unchoked_peers,
                      interested_peers, optimistic_unchoke_peer, last_unchoke_update,
                      last_optimistic_update, upload_history, connected_peers,
                      pending_requests, active_downloads, sent_requests,
                      storeVars, wireVars, finalVars,
                      trackerVars, nodeVars, swarmVars>>

\* record_upload(peer_id, block_id, bytes_uploaded)
RecordUpload(peer_id, bytes_uploaded) ==
    LET history == KeepLast(Append(upload_history[peer_id], <<now, bytes_uploaded>>))
    IN /\ Len(download_history[peer_id]) + failed_requests[peer_id]
             + Len(upload_history[peer_id]) < MaxRecords
       /\ upload_history' = [upload_history EXCEPT ![peer_id] = history]
       /\ peer_upload_rates' =
             [peer_upload_rates EXCEPT ![peer_id] = UpdateUploadRate(history, now)]
       /\ UNCHANGED <<now, peer_blocks, peer_download_rates, unchoked_peers,
                      interested_peers, optimistic_unchoke_peer, last_unchoke_update,
                      last_optimistic_update, successful_downloads, failed_requests,
                      download_history, connected_peers, pending_requests,
                      active_downloads, sent_requests, storeVars, wireVars, finalVars,
                      trackerVars, nodeVars, swarmVars>>

\* remove_peer(peer_id)
RemovePeer(peer_id) ==
    /\ peer_blocks' = [peer_blocks EXCEPT ![peer_id] = {}]
    /\ peer_download_rates' = [peer_download_rates EXCEPT ![peer_id] = ZeroRate]
    /\ peer_upload_rates' = [peer_upload_rates EXCEPT ![peer_id] = ZeroRate]
    /\ unchoked_peers' = unchoked_peers \ {peer_id}
    /\ interested_peers' = interested_peers \ {peer_id}
    /\ optimistic_unchoke_peer' =
          IF optimistic_unchoke_peer = peer_id THEN NoPeer ELSE optimistic_unchoke_peer
    /\ successful_downloads' = [successful_downloads EXCEPT ![peer_id] = 0]
    /\ failed_requests' = [failed_requests EXCEPT ![peer_id] = 0]
    /\ download_history' = [download_history EXCEPT ![peer_id] = <<>>]
    /\ upload_history' = [upload_history EXCEPT ![peer_id] = <<>>]
    /\ UNCHANGED <<now, last_unchoke_update, last_optimistic_update, connected_peers,
                   pending_requests, active_downloads, sent_requests,
                   storeVars, wireVars, finalVars,
                   trackerVars, nodeVars, swarmVars>>

\* set_peer_interested(peer_id, interested)
SetPeerInterested(peer_id, interested) ==
    /\ interested_peers' = IF interested THEN interested_peers \cup {peer_id}
                           ELSE interested_peers \ {peer_id}
    /\ UNCHANGED <<now, peer_blocks, peer_download_rates, peer_upload_rates,
                   unchoked_peers, optimistic_unchoke_peer, last_unchoke_update,
                   last_optimistic_update, successful_downloads, failed_requests,
                   download_history, upload_history, connected_peers,
                   pending_requests, active_downloads, sent_requests,
                   storeVars, wireVars, finalVars,
                   trackerVars, nodeVars, swarmVars>>

\* join_network: connect_to_peer succeeded for peer_id
ConnectPeer(peer_id) ==
    /\ peer_id \notin connected_peers
    /\ connected_peers' = connected_peers \cup {peer_id}
    /\ UNCHANGED <<now, peer_blocks, peer_download_rates, peer_upload_rates,
                   unchoked_peers, interested_peers, optimistic_unchoke_peer,
                   last_unchoke_update, last_optimistic_update, successful_downloads,
                   failed_requests, download_history, upload_history,
                   pending_requests, active_downloads, sent_requests,
                   storeVars, wireVars, finalVars,
                   trackerVars, nodeVars, swarmVars>>

\* The clock advances.
Tick ==
    /\ now + TimeStep <= MaxTime
    /\ now' = now + TimeStep
    /\ UNCHANGED <<peer_blocks, peer_download_rates, peer_upload_rates, unchoked_peers,
                   interested_peers, optimistic_unchoke_peer, last_unchoke_update,
                   last_optimistic_update, successful_downloads, failed_requests,
                   download_history, upload_history, connected_peers,
                   pending_requests, active_downloads, sent_requests,
                   storeVars, wireVars, finalVars,
                   trackerVars, nodeVars, swarmVars>>

(***************************************************************************)
(* PeerStrategies: the choke controller                                    *)
(***************************************************************************)
\* _calculate_tit_for_tat_score(peer_id), as the fraction <<numerator, denominator>>
CalculateTitForTatScore(peer_id) ==
    LET download_rate == WindowRate(download_history[peer_id], now, ScoreWindow)
        upload_bytes == SumBytes(upload_history[peer_id])
        download_bytes == SumBytes(download_history[peer_id])
        reciprocity == Reduced(<<Min(upload_bytes, download_bytes),
                                 Max(upload_bytes, download_bytes)>>)
    IN IF upload_bytes > 0 /\ download_bytes > 0
       THEN \* score = download_rate + reciprocity * 1000
            Reduced(<<download_rate[1] * reciprocity[2]
                         + 1000 * reciprocity[1] * download_rate[2],
                      download_rate[2] * reciprocity[2]>>)
       ELSE IF upload_bytes = 0 /\ download_bytes > 1000
       THEN \* score = download_rate * 0.1
            Reduced(<<download_rate[1], 10 * download_rate[2]>>)
       ELSE Reduced(download_rate)

\* (score, p) comes before (score, q) in peer_scores.sort(reverse=True)
ScoredBefore(p, q) ==
    \/ RateGreater(CalculateTitForTatScore(p), CalculateTitForTatScore(q))
    \/ /\ RateEqual(CalculateTitForTatScore(p), CalculateTitForTatScore(q))
       /\ p > q

\* the first max_unchoked peers of the sorted peer_scores
NewUnchoked(eligible_peers) ==
    {p \in eligible_peers :
        Cardinality({q \in eligible_peers : ScoredBefore(q, p)}) < max_unchoked}

\* update_unchoked_peers(connected_peers)
UpdateUnchokedPeers ==
    LET eligible_peers == connected_peers \cap interested_peers
    IN /\ IF now - last_unchoke_update < unchoke_interval
          THEN UNCHANGED <<last_unchoke_update, unchoked_peers>>
          ELSE /\ last_unchoke_update' = now
               /\ unchoked_peers' = IF eligible_peers = {} THEN unchoked_peers
                                    ELSE NewUnchoked(eligible_peers)
       /\ UNCHANGED <<now, peer_blocks, peer_download_rates, peer_upload_rates,
                      interested_peers, optimistic_unchoke_peer,
                      last_optimistic_update, successful_downloads, failed_requests,
                      download_history, upload_history, connected_peers,
                      pending_requests, active_downloads, sent_requests,
                      storeVars, wireVars, finalVars,
                      trackerVars, nodeVars, swarmVars>>

\* select_optimistic_unchoke(connected_peers); every eligible peer has a weight
\* of at least 1, so random.choices can return any of them
SelectOptimisticUnchoke ==
    LET eligible_peers == (connected_peers \cap interested_peers) \ unchoked_peers
    IN /\ IF now - last_optimistic_update < optimistic_interval
          THEN UNCHANGED <<last_optimistic_update, optimistic_unchoke_peer>>
          ELSE /\ last_optimistic_update' = now
               /\ IF eligible_peers = {}
                  THEN optimistic_unchoke_peer' = NoPeer
                  ELSE optimistic_unchoke_peer' \in eligible_peers
       /\ UNCHANGED <<now, peer_blocks, peer_download_rates, peer_upload_rates,
                      unchoked_peers, interested_peers, last_unchoke_update,
                      successful_downloads, failed_requests, download_history,
                      upload_history, connected_peers, pending_requests,
                      active_downloads, sent_requests, storeVars, wireVars, finalVars,
                      trackerVars, nodeVars, swarmVars>>

(***************************************************************************)
(* PeerStrategies and PeerNode: the scheduler                              *)
(***************************************************************************)
\* _calculate_block_rarity: the number of peers of peer_blocks that hold the block
CalculateBlockRarity(block_id) ==
    Cardinality({p \in DOMAIN peer_blocks : block_id \in peer_blocks[p]})

\* Blocks sorted by id alone.
IdBefore(a, b) == a < b

\* the sort key (block_rarity.get(b, 0), b) of a comes before that of b
RarityBefore(a, b) ==
    \/ CalculateBlockRarity(a) < CalculateBlockRarity(b)
    \/ CalculateBlockRarity(a) = CalculateBlockRarity(b) /\ a < b

RECURSIVE SortedBlocks(_)
SortedBlocks(block_ids) ==
    IF block_ids = {} THEN <<>>
    ELSE LET first == CHOOSE a \in block_ids : \A b \in block_ids \ {a} : RarityBefore(a, b)
         IN <<first>> \o SortedBlocks(block_ids \ {first})

\* select_rarest_blocks(missing_blocks, max_blocks)
SelectRarestBlocks(missing_blocks, max_blocks) ==
    IF missing_blocks = {} THEN <<>>
    ELSE SubSeq(SortedBlocks(missing_blocks), 1,
                Min(max_blocks, Cardinality(missing_blocks)))

\* the candidate_peers of select_download_peers(block_id)
CandidatePeers(block_id) ==
    {p \in DOMAIN peer_blocks : block_id \in peer_blocks[p] /\ p \in interested_peers}

\* _calculate_peer_download_score(peer_id) without its random term, as the
\* fraction <<numerator, denominator>>:
\*   download_rate * 0.4 + success_rate * 30 + blocks_available * 0.2
CalculatePeerDownloadScore(peer_id) ==
    LET rate == peer_download_rates[peer_id]
        total_requests == successful_downloads[peer_id] + failed_requests[peer_id]
        total == IF total_requests > 0 THEN total_requests ELSE 1
        blocks_available == Cardinality(peer_blocks[peer_id])
    IN <<4 * rate[1] * total + 300 * successful_downloads[peer_id] * rate[2]
            + 2 * blocks_available * rate[2] * total,
         10 * rate[2] * total>>

\* The random term random.random() * 10 lies in [0, 10): q is sorted before p
\* whatever the two draws are iff its score without the term is at least 10
\* more than that of p.
AlwaysBefore(q, p) ==
    LET sq == CalculatePeerDownloadScore(q)
        sp == CalculatePeerDownloadScore(p)
    IN sq[1] * sp[2] - sp[1] * sq[2] >= 10 * sq[2] * sp[2]

\* should_request_from_peer(peer_id, block_id).  peer_last_request is never
\* written, so last_request is 0 and time.time() - 0 < 1.0 is false.
ShouldRequestFromPeer(peer_id, block_id) ==
    LET total_requests == successful_downloads[peer_id] + failed_requests[peer_id]
    IN /\ block_id \in peer_blocks[peer_id]
       /\ peer_id \in unchoked_peers \/ peer_id = optimistic_unchoke_peer
       /\ ~(total_requests > 5 /\ 2 * successful_downloads[peer_id] < total_requests)

\* The peers the inner loop of _process_downloads can send the REQUEST for
\* block_id to: a candidate that should be requested from, that some order of
\* the random scores puts among the first max_peers = 3 candidates and before
\* every other candidate that should be requested from.  NoPeer: some order
\* puts no such candidate among the first 3.
MaxPeers == 3
RequestChoices(block_id) ==
    LET candidates == CandidatePeers(block_id)
        passing == {p \in candidates : ShouldRequestFromPeer(p, block_id)}
        Closed(T) == \A t \in T : \A q \in candidates : AlwaysBefore(q, t) => q \in T
    IN {p \in passing :
           LET ahead == {q \in candidates : AlwaysBefore(q, p)}
           IN Cardinality(ahead) < MaxPeers /\ ahead \cap passing = {}}
       \cup (IF \E T \in SUBSET (candidates \ passing) :
                   /\ Cardinality(T) = Min(MaxPeers, Cardinality(candidates))
                   /\ Closed(T)
             THEN {NoPeer} ELSE {})

\* the REQUESTs of one pass over rarest_blocks, in the order they are sent
RECURSIVE RequestsOf(_, _)
RequestsOf(rarest_blocks, choice) ==
    IF rarest_blocks = <<>> THEN <<>>
    ELSE LET block_id == Head(rarest_blocks)
         IN (IF block_id \in DOMAIN active_downloads \/ choice[block_id] = NoPeer
             THEN <<>> ELSE <<(<<choice[block_id], block_id>>)>>)
            \o RequestsOf(Tail(rarest_blocks), choice)

\* PeerCommunication.request_block(peer_id, block_id), which _process_downloads
\* calls as send_request: a REQUEST for block_id goes to peer_id
SendRequests(requests) == sent_requests' = sent_requests \o requests

\* BlockManager.get_missing_blocks()
GetMissingBlocks == {b \in 0..(total_blocks - 1) : b \notin blocks_owned}

\* the max_blocks _process_downloads passes to select_rarest_blocks
MaxBlocks == 10

\* PeerNode._process_downloads()
ProcessDownloads ==
    LET rarest_blocks == SelectRarestBlocks(GetMissingBlocks, MaxBlocks)
        block_ids == {rarest_blocks[k] : k \in 1..Len(rarest_blocks)}
        choosable == UNION {RequestChoices(b) : b \in block_ids}
    IN \E choice \in [block_ids -> choosable] :
          LET requests == RequestsOf(rarest_blocks, choice)
              requested == {requests[k] : k \in 1..Len(requests)}
          IN /\ \A b \in block_ids : choice[b] \in RequestChoices(b)
             /\ pending_requests' =
                   [p \in AllPeers |->
                       pending_requests[p] \cup {r[2] : r \in {x \in requested : x[1] = p}}]
             /\ active_downloads' =
                   [b \in DOMAIN active_downloads \cup {r[2] : r \in requested} |->
                       IF b \in DOMAIN active_downloads THEN active_downloads[b]
                       ELSE choice[b]]
             /\ SendRequests(requests)
             /\ UNCHANGED <<now, peer_blocks, peer_download_rates, peer_upload_rates,
                            unchoked_peers, interested_peers, optimistic_unchoke_peer,
                            last_unchoke_update, last_optimistic_update,
                            successful_downloads, failed_requests, download_history,
                            upload_history, connected_peers, storeVars, wireVars, finalVars,
                            trackerVars, nodeVars, swarmVars>>

(***************************************************************************)
(* minibit-final: Peer                                                     *)
(***************************************************************************)
\* config.py
PEER_PORT_BASE == 9000
MAX_UNCHOKED == 4

\* The peer of the model has peer_id 0; the remote peers are FinalRemotes; a
\* request can also carry the port of a peer the tracker never listed.
SelfPort == PEER_PORT_BASE
FinalRemotes == {PEER_PORT_BASE + 1, PEER_PORT_BASE + 2}
StrangerPort == PEER_PORT_BASE + 7

\* range(total_blocks) of the swarm, and a block id outside it
FinalBlocks == {0, 1}
StrayBlock == 5

\* What _handle_request sent on the connection before closing it.
NoRequest == [type |-> "none", requester_port |-> NoPeer, block_id |-> NoBlock]
Reply(request, sent) == [request |-> request, sent |-> sent]

\* threading.Lock(): no thread holds the lock
NoThread == "none"

\* "with self.lock" is entered when no thread holds the lock; without the
\* lock the block is entered at once.
LockIgnored == TRUE
LockFree == lock = NoThread

\* Peer.__init__ and Peer.run(): running is set, the lock is free, and the
\* server thread and the update thread are at the test of their "while
\* self.running".
ThreadsStarted ==
    /\ running = TRUE
    /\ lock = NoThread
    /\ server_pc = "test"
    /\ update_thread = [pc |-> "sleep", new_allowed |-> {}, optimistic |-> NoPeer]

\* Peer.__init__(peer_id, total_blocks, initial_blocks): initial_blocks come
\* from the command line, the block files from the splitter.
FinalInit ==
    /\ blocks \in SUBSET FinalBlocks
    /\ disk_blocks \in SUBSET FinalBlocks
    /\ peers_known = {}
    /\ allowed_peers = {}
    /\ optimistic_peer = NoPeer
    /\ blocked_by = {}
    /\ reply = Reply(NoRequest, "nothing")
    /\ ThreadsStarted

\* The requests that reach _handle_request.
FinalRequests ==
    {[type |-> "list", requester_port |-> NoPeer, block_id |-> NoBlock]} \cup
    {[type |-> "block_request", requester_port |-> port, block_id |-> b] :
        port \in FinalRemotes \cup {StrangerPort}, b \in FinalBlocks \cup {StrayBlock}}

\* Peer._handle_request(connection) for the request read from the connection.
\* open() of a block file that does not exist raises; "except Exception: pass"
\* swallows it and the connection is closed with nothing sent.
Answered(request) ==
    IF request.type = "list" THEN Reply(request, "list")
    ELSE IF request.type = "block_request"
    THEN LET allowed == \/ request.requester_port \in allowed_peers
                        \/ request.requester_port = optimistic_peer
         IN IF allowed /\ request.block_id \in blocks
            THEN IF request.block_id \in disk_blocks
                 THEN Reply(request, "block")
                 ELSE Reply(request, "nothing")
            ELSE Reply(request, "CHOKED")
    ELSE Reply(request, "nothing")

\* _handle_request run to its end with no other thread in between.
HandleRequest(request) ==
    /\ reply' = Answered(request)
    /\ UNCHANGED <<blocks, peers_known, allowed_peers, optimistic_peer, blocked_by,
                   disk_blocks, threadVars, storeVars, wireVars, stratVars,
                   trackerVars, nodeVars, swarmVars>>

\* Peer.contact_tracker(): the tracker answers with the ports of peers, or the
\* contact fails.
ContactTracker(peers) ==
    /\ LockFree
    /\ peers_known' = peers_known \cup peers
    /\ UNCHANGED <<blocks, allowed_peers, optimistic_peer, blocked_by, disk_blocks,
                   reply, threadVars, storeVars, wireVars, stratVars,
                   trackerVars, nodeVars, swarmVars>>

\* What _get_blocks_in_network gets from the known peers: listing[port] is the
\* block set the peer answers with, or Unreachable.
Unreachable == {-1}
Listings == [FinalRemotes -> (SUBSET FinalBlocks) \cup {Unreachable}]
Reached(listing) ==
    {port \in peers_known \ {SelfPort} : listing[port] # Unreachable}

\* The rankings sorted(scores.keys(), key=scores, reverse=True)[:MAX_UNCHOKED]
\* can give: the order of peers of equal score is that of a set iteration.
TopScored(scores) ==
    {top \in SUBSET DOMAIN scores :
        /\ Cardinality(top) = Min(MAX_UNCHOKED, Cardinality(DOMAIN scores))
        /\ \A p \in top : \A q \in (DOMAIN scores) \ top : scores[p] >= scores[q]}

\* One iteration of Peer.update_peers_loop().
UpdatePeersLoop(listing) ==
    LET known == (peers_known \ {SelfPort}) \cap Reached(listing)
        needed_blocks == FinalBlocks \ blocks
        scores == [port \in Reached(listing) |->
                      Cardinality(needed_blocks \cap listing[port])]
    IN /\ peers_known # {}
       /\ peers_known' = peers_known \ ((peers_known \ {SelfPort}) \ Reached(listing))
       /\ blocked_by' = {}
       /\ IF needed_blocks = {}
          THEN /\ \E selected \in SUBSET known :
                     /\ Cardinality(selected) = Min(MAX_UNCHOKED, Cardinality(known))
                     /\ allowed_peers' = selected
               /\ optimistic_peer' = NoPeer
          ELSE \E new_allowed \in TopScored(scores) :
                  /\ allowed_peers' = new_allowed
                  /\ IF (DOMAIN scores) \ new_allowed = {}
                     THEN optimistic_peer' = NoPeer
                     ELSE optimistic_peer' \in (DOMAIN scores) \ new_allowed
       /\ UNCHANGED <<blocks, disk_blocks, reply, threadVars, storeVars, wireVars,
                      stratVars, trackerVars, nodeVars, swarmVars>>

\* One iteration of the body of Peer.download_blocks_loop(): the rarest needed
\* block is asked of the allowed peers and the optimistic peer that list it,
\* in a shuffled order; those that answer CHOKED before one serves the block
\* are added to blocked_by, and a served block is written and owned.
DownloadBlocksLoop(listing) ==
    LET reached == Reached(listing)
        needed == FinalBlocks \ blocks
        Count(b) == Cardinality({port \in reached : b \in listing[port]})
        listed == {b \in needed : Count(b) > 0}
        rarest == {b \in listed : \A c \in listed : Count(b) <= Count(c)}
        candidates == allowed_peers \cup
                         (IF optimistic_peer # NoPeer THEN {optimistic_peer} ELSE {})
    IN /\ Cardinality(blocks) < Cardinality(FinalBlocks)
       /\ peers_known' = peers_known \ ((peers_known \ {SelfPort}) \ reached)
       /\ IF rarest = {}
          THEN UNCHANGED <<blocks, disk_blocks, blocked_by>>
          ELSE \E target \in rarest :
                  LET asked == {port \in candidates \cap reached : target \in listing[port]}
                  IN \E choked \in SUBSET asked, downloaded \in BOOLEAN :
                        /\ downloaded => choked # asked
                        /\ blocked_by' = blocked_by \cup choked
                        /\ blocks' = IF downloaded THEN blocks \cup {target} ELSE blocks
                        /\ disk_blocks' = IF downloaded THEN disk_blocks \cup {target}
                                          ELSE disk_blocks
       /\ UNCHANGED <<allowed_peers, optimistic_peer, reply, threadVars,
                      storeVars, wireVars, stratVars,
                      trackerVars, nodeVars, swarmVars>>

FinalNext ==
    \/ \E request \in FinalRequests : HandleRequest(request)
    \/ \E peers \in SUBSET (FinalRemotes \cup {SelfPort}) : ContactTracker(peers)
    \/ \E listing \in Listings : UpdatePeersLoop(listing)
    \/ \E listing \in Listings : DownloadBlocksLoop(listing)

(***************************************************************************)
(* minibit-final: the threads of the Peer                                  *)
(***************************************************************************)
\* The remote peers of the threaded peer, one more than MAX_UNCHOKED; what
\* the tracker answers; what the remote peers list (all answer); the requests
\* they send.
ThreadRemotes == {PEER_PORT_BASE + k : k \in 1..(MAX_UNCHOKED + 1)}
ThreadSamples == {{SelfPort, PEER_PORT_BASE + 1, PEER_PORT_BASE + 2},
                  {SelfPort} \cup ThreadRemotes}
ThreadListings == [ThreadRemotes -> {{}, FinalBlocks}]
ThreadRequests ==
    {[type |-> "list", requester_port |-> NoPeer, block_id |-> NoBlock]} \cup
    {[type |-> "block_request", requester_port |-> port, block_id |-> 0] :
        port \in ThreadRemotes}

\* The caller of the peer clears Peer.running.
Stop ==
    /\ running
    /\ running' = FALSE
    /\ UNCHANGED <<blocks, peers_known, allowed_peers, optimistic_peer, blocked_by,
                   disk_blocks, reply, lock, server_pc, update_thread,
                   storeVars, wireVars, stratVars, trackerVars, nodeVars, swarmVars>>

\* _server_loop: the test of "while self.running"; the thread goes on to
\* server_socket.accept() or leaves the loop.
ServerTest ==
    /\ server_pc = "test"
    /\ server_pc' = IF running THEN "accept" ELSE "exited"
    /\ UNCHANGED <<blocks, peers_known, allowed_peers, optimistic_peer, blocked_by,
                   disk_blocks, reply, running, lock, update_thread,
                   storeVars, wireVars, stratVars, trackerVars, nodeVars, swarmVars>>

\* _server_loop: accept() returns a connection and a thread is started that
\* runs _handle_request on it, which reads allowed_peers and optimistic_peer
\* inside "with self.lock" for a block_request; the server thread is back at
\* the test.
ServerAccept(request) ==
    /\ server_pc = "accept"
    /\ request.type = "block_request" => LockFree
    /\ reply' = Answered(request)
    /\ server_pc' = "test"
    /\ UNCHANGED <<blocks, peers_known, allowed_peers, optimistic_peer, blocked_by,
                   disk_blocks, running, lock, update_thread,
                   storeVars, wireVars, stratVars, trackerVars, nodeVars, swarmVars>>

\* update_peers_loop from the test of "while self.running" on.  A peer that
\* runs lists the blocks in the network, clears blocked_by under the lock
\* and, when it needs no block, assigns the sample "selected" to
\* allowed_peers in the same "with"; when it needs blocks it leaves the lock,
\* ranks the peers and waits for the lock with new_allowed and optimistic.
UpdateTick(listing) ==
    LET known == (peers_known \ {SelfPort}) \cap Reached(listing)
        needed_blocks == FinalBlocks \ blocks
        scores == [port \in Reached(listing) |->
                      Cardinality(needed_blocks \cap listing[port])]
    IN /\ update_thread.pc = "sleep"
       /\ IF ~running
          THEN /\ update_thread' = [update_thread EXCEPT !.pc = "exited"]
               /\ UNCHANGED <<peers_known, blocked_by, allowed_peers, lock>>
          ELSE /\ peers_known # {}
               /\ LockFree
               /\ peers_known' =
                     peers_known \ ((peers_known \ {SelfPort}) \ Reached(listing))
               /\ blocked_by' = {}
               /\ IF needed_blocks = {}
                  THEN \E selected \in SUBSET known :
                          /\ Cardinality(selected) = Min(MAX_UNCHOKED, Cardinality(known))
                          /\ allowed_peers' = selected
                          /\ lock' = "update"
                          /\ update_thread' = [pc |-> "optimistic",
                                               new_allowed |-> selected,
                                               optimistic |-> NoPeer]
                  ELSE \E new_allowed \in TopScored(scores) :
                       \E optimistic \in IF (DOMAIN scores) \ new_allowed = {}
                                         THEN {NoPeer}
                                         ELSE (DOMAIN scores) \ new_allowed :
                          /\ update_thread' = [pc |-> "acquire",
                                               new_allowed |-> new_allowed,
                                               optimistic |-> optimistic]
                          /\ UNCHANGED <<allowed_peers, lock>>
       /\ UNCHANGED <<blocks, optimistic_peer, disk_blocks, reply, running, server_pc,
                      storeVars, wireVars, stratVars, trackerVars, nodeVars, swarmVars>>

\* update_peers_loop: the last "with self.lock" is entered and
\* self.allowed_peers = new_allowed is done.
PublishAllowed ==
    /\ update_thread.pc = "acquire"
    /\ LockFree
    /\ lock' = "update"
    /\ allowed_peers' = update_thread.new_allowed
    /\ update_thread' = [update_thread EXCEPT !.pc = "optimistic"]
    /\ UNCHANGED <<blocks, peers_known, optimistic_peer, blocked_by, disk_blocks,
                   reply, running, server_pc,
                   storeVars, wireVars, stratVars, trackerVars, nodeVars, swarmVars>>

\* update_peers_loop: self.optimistic_peer is assigned and the "with" is
\* left; the thread is back at the test of the loop.
PublishOptimistic ==
    /\ update_thread.pc = "optimistic"
    /\ optimistic_peer' = update_thread.optimistic
    /\ lock' = NoThread
    /\ update_thread' = [update_thread EXCEPT !.pc = "sleep"]
    /\ UNCHANGED <<blocks, peers_known, allowed_peers, blocked_by, disk_blocks,
                   reply, running, server_pc,
                   storeVars, wireVars, stratVars, trackerVars, nodeVars, swarmVars>>

ThreadsNext ==
    \/ Stop
    \/ ServerTest
    \/ \E request \in ThreadRequests : ServerAccept(request)
    \/ \E peers \in ThreadSamples : ContactTracker(peers)
    \/ \E listing \in ThreadListings : UpdateTick(listing)
    \/ PublishAllowed
    \/ PublishOptimistic

(***************************************************************************)
(* minibit-final: the tracker                                              *)
(***************************************************************************)
\* config.py
TRACKER_TIMEOUT == 40

\* The wall clock runs from 0 to MaxClock in steps of TimeStep.
MaxClock == 60

\* The ports of the peers that contact the tracker.
TrackerPorts == FinalRemotes

\* The clock advances.
ClockTick ==
    /\ wall_clock + TimeStep <= MaxClock
    /\ wall_clock' = wall_clock + TimeStep
    /\ UNCHANGED <<active_peers, sweep_due, peer_list, nodeVars, swarmVars,
                   storeVars, wireVars, stratVars, finalVars>>

\* The clock advances at the tracker.  remove_inactive_peers does not
\* oversleep: a sweep that is due runs before the clock moves on.
TrackerTick ==
    /\ wall_clock < sweep_due
    /\ ClockTick

\* active_peers[peer_port] = time.time()
Registered(peer_port) == Put(active_peers, peer_port, wall_clock)

\* The lists random.sample(other_peers, min(MAX_UNCHOKED, len(other_peers)))
\* can return to peer_port, as sets.
PeerSamples(peer_port) ==
    LET other_peers == (DOMAIN Registered(peer_port)) \ {peer_port}
    IN {selected \in SUBSET other_peers :
           Cardinality(selected) = Min(MAX_UNCHOKED, Cardinality(other_peers))}

\* handle_peer_connection(connection) for a connection on which peer_port
\* arrives: the peer is registered and a sample of the other peers is sent.
HandlePeerConnection(peer_port, selected) ==
    /\ selected \in PeerSamples(peer_port)
    /\ active_peers' = Registered(peer_port)
    /\ peer_list' = [to |-> peer_port, peers |-> selected]
    /\ UNCHANGED <<wall_clock, sweep_due, nodeVars, swarmVars,
                   storeVars, wireVars, stratVars, finalVars>>

\* One round of remove_inactive_peers(): after time.sleep(TRACKER_TIMEOUT / 2)
\* the peers last seen more than TRACKER_TIMEOUT ago are deleted.
RemoveInactivePeers ==
    /\ wall_clock >= sweep_due
    /\ active_peers' =
          [port \in {q \in DOMAIN active_peers :
                        ~(wall_clock - active_peers[q] > TRACKER_TIMEOUT)} |->
              active_peers[port]]
    /\ sweep_due' = wall_clock + TRACKER_TIMEOUT \div 2
    /\ UNCHANGED <<wall_clock, peer_list, nodeVars, swarmVars,
                   storeVars, wireVars, stratVars, finalVars>>

\* start_tracker(): no peer is registered and the sweeper has gone to sleep.
TrackerInit ==
    /\ wall_clock = 0
    /\ active_peers = <<>>
    /\ sweep_due = TRACKER_TIMEOUT \div 2
    /\ peer_list = [to |-> NoPeer, peers |-> {}]

TrackerNext ==
    \/ TrackerTick
    \/ \E peer_port \in TrackerPorts, selected \in SUBSET TrackerPorts :
          HandlePeerConnection(peer_port, selected)
    \/ RemoveInactivePeers

(***************************************************************************)
(* algoritmos_rarest_first_e_tit_for_tat: Peer and its tracker contact      *)
(***************************************************************************)
\* update_peer_list: "if time.time() - self.last_peer_update > 30"
PeerUpdateInterval == 30

\* time.time() when the process starts: the wall clock of the model counts
\* from there, and last_peer_update = 0 lies ProcessStart seconds before.
ProcessStart == 1000

\* The peer ids a tracker reply lists.
NodePeers == {1, 2}

\* What requests.get(tracker_url + "/get_peers") gives: it raises (the tracker
\* cannot be reached), or it returns a response with a status code and, for
\* status 200, the peers.
TrackerResponses ==
    {[raised |-> TRUE, status_code |-> 0, peers |-> {}]} \cup
    {[raised |-> FALSE, status_code |-> 400, peers |-> {}]} \cup
    {[raised |-> FALSE, status_code |-> 200, peers |-> listed] : listed \in SUBSET NodePeers}

\* The update of the peer list is due.
UpdateDue == wall_clock - last_peer_update > PeerUpdateInterval

\* One iteration of Peer.download_manager() as far as the peer list goes: it
\* calls update_peer_list(), which has no handler for what requests.get
\* raises, and neither has download_manager: the exception ends the thread.
DownloadManager(response) ==
    /\ manager_running
    /\ IF ~UpdateDue
       THEN UNCHANGED <<known_peers, last_peer_update, manager_running>>
       ELSE IF response.raised
       THEN /\ manager_running' = FALSE
            /\ UNCHANGED <<known_peers, last_peer_update>>
       ELSE /\ known_peers' = IF response.status_code = 200 THEN response.peers
                              ELSE known_peers
            /\ last_peer_update' = wall_clock
            /\ manager_running' = TRUE
    /\ UNCHANGED <<titVars, trackerVars, swarmVars, storeVars, wireVars, stratVars,
                   finalVars>>

\* The peer ids TitForTat hears of, the blocks of the file, of which the
\* local peer owns none (get_needed_blocks()), and len(data) of a block.
TitPeers == {1, 2, 3, 4, 5}
TitBlocks == {0}
TitBlockLens == {512}

\* TitForTat.__init__() at the time current_time
NewTitForTat(current_time) ==
    /\ unchoked = {}
    /\ tit_optimistic_peer = NoPeer
    /\ download_rates = <<>>
    /\ unchoke_history = [p \in TitPeers |-> <<>>]
    /\ tit_last_unchoke_update = current_time
    /\ last_optimistic = current_time

\* TitForTat.update_download_rate(peer_id, bytes_downloaded): a new key goes
\* to the end of the dictionary, a known key keeps its place
UpdateTitDownloadRate(peer_id, bytes_downloaded) ==
    /\ download_rates' =
          IF \E k \in DOMAIN download_rates : download_rates[k][1] = peer_id
          THEN [k \in DOMAIN download_rates |->
                   IF download_rates[k][1] = peer_id
                   THEN <<peer_id, bytes_downloaded>> ELSE download_rates[k]]
          ELSE Append(download_rates, <<peer_id, bytes_downloaded>>)
    /\ UNCHANGED <<known_peers, last_peer_update, manager_running, known_blocks,
                   unchoked, tit_optimistic_peer, unchoke_history,
                   tit_last_unchoke_update, last_optimistic, trackerVars, swarmVars,
                   storeVars, wireVars, stratVars, finalVars>>

\* sorted(self.download_rates.items(), key=lambda x: x[1], reverse=True): the
\* sort is stable, items of one rate stay in insertion order
SortedBefore(j, k) ==
    \/ download_rates[j][2] > download_rates[k][2]
    \/ download_rates[j][2] = download_rates[k][2] /\ j < k

\* the peer ids of sorted_peers[:4]
RegularSlots == 4
TopRated ==
    {download_rates[k][1] : k \in {k \in DOMAIN download_rates :
        Cardinality({j \in DOMAIN download_rates : SortedBefore(j, k)}) < RegularSlots}}

\* peer.known_peers[peer_id]["blocks"] and peer.get_needed_blocks() share a block
HoldsNeededBlock(peer_id) == known_blocks[peer_id] \cap TitBlocks # {}

\* TitForTat._update_regular_unchoke(peer): new_unchoked
RegularUnchoke ==
    {peer_id \in TopRated : peer_id \in known_peers /\ HoldsNeededBlock(peer_id)}

\* TitForTat._update_optimistic_unchoke(peer): the candidates random.choice
\* draws from.  With every known peer tried the list is all of them, sorted
\* by the oldest unchoke, and the draw is still over the whole list.
OptimisticCandidates ==
    LET all_peers == known_peers
        tried_peers == {p \in TitPeers : unchoke_history[p] # <<>>}
    IN IF all_peers \ tried_peers # {} THEN all_peers \ tried_peers ELSE all_peers

\* TitForTat.update_unchoked(peer)
TitUnchokeInterval == 10
TitOptimisticInterval == 30
UpdateUnchoked ==
    LET regular_due == wall_clock - tit_last_unchoke_update > TitUnchokeInterval
        optimistic_due == wall_clock - last_optimistic > TitOptimisticInterval
    IN /\ unchoked' = IF regular_due THEN RegularUnchoke ELSE unchoked
       /\ tit_last_unchoke_update' =
             IF regular_due THEN wall_clock ELSE tit_last_unchoke_update
       /\ last_optimistic' = IF optimistic_due THEN wall_clock ELSE last_optimistic
       /\ IF optimistic_due /\ OptimisticCandidates # {}
          THEN \E selected \in OptimisticCandidates :
                  /\ tit_optimistic_peer' = selected
                  /\ unchoke_history' =
                        [unchoke_history EXCEPT ![selected] = Append(@, wall_clock)]
          ELSE UNCHANGED <<tit_optimistic_peer, unchoke_history>>
       /\ UNCHANGED <<known_peers, last_peer_update, manager_running, known_blocks,
                      download_rates, trackerVars, swarmVars, storeVars, wireVars,
                      stratVars, finalVars>>

\* Peer.__init__: the threads are started.
NodeInit ==
    /\ known_peers = {}
    /\ last_peer_update = 0 - ProcessStart
    /\ manager_running = TRUE
    /\ known_blocks = [p \in TitPeers |-> {}]
    /\ NewTitForTat(0)

NodeNext ==
    \/ ClockTick
    \/ \E response \in TrackerResponses : DownloadManager(response)

(***************************************************************************)
(* minibit-final: a swarm of a seed, a leech and the tracker               *)
(***************************************************************************)
SeedPort == PEER_PORT_BASE + 1
LeechPort == PEER_PORT_BASE + 2
SwarmPorts == {SeedPort, LeechPort}

\* b'CHOKED'
Choked == <<67, 72, 79, 75, 69, 68>>

\* BLOCK_SIZE of config.py, scaled down to the length of b'CHOKED'.
SwarmBlockSize == Len(Choked)

\* The files the seed distributes: one of a full block and a byte, one whose
\* last block is the six bytes of b'CHOKED'.
SwarmSources == {<<1, 2, 3, 4, 5, 6, 7>>, <<1, 2, 3, 4, 5, 6>> \o Choked}

\* partition_file(source_path, destination_folder, segment_size): the block
\* files written, block_index -> bytes.
PartitionFile(content, segment_size) == SplitBlocks(content, segment_size)

\* range(total_blocks) of the swarm's file
SwarmBlocks == DOMAIN PartitionFile(source_file, SwarmBlockSize)

\* The bytes of the block files of indexes, in ascending order.
RECURSIVE ConcatBlocks(_, _)
ConcatBlocks(indexes, files) ==
    IF indexes = {} THEN <<>>
    ELSE LET index == CHOOSE a \in indexes : \A b \in indexes : a <= b
         IN files[index] \o ConcatBlocks(indexes \ {index}, files)

\* assemble_file(block_numbers, source_folder, output_path, file_name): the
\* bytes written; open() of a block file that is missing raises (NoData).
AssembleFile(block_numbers, files) ==
    IF block_numbers \subseteq DOMAIN files THEN ConcatBlocks(block_numbers, files)
    ELSE NoData

\* Peer.__init__(peer_id, total_blocks, initial_blocks)
NewPeer(initial_blocks) ==
    [blocks |-> initial_blocks, peers_known |-> {}, allowed_peers |-> {},
     optimistic_peer |-> NoPeer, blocked_by |-> {}]

\* Peer.contact_tracker() of the peer at port self, with the tracker's
\* handle_peer_connection on the other side; a tracker that is down is logged.
SwarmContactTracker(self) ==
    /\ IF tracker_up
       THEN \E selected \in PeerSamples(self) :
               /\ active_peers' = Registered(self)
               /\ peer_list' = [to |-> self, peers |-> selected]
               /\ peer_state' = [peer_state EXCEPT ![self].peers_known = @ \cup selected]
       ELSE UNCHANGED <<active_peers, peer_list, peer_state>>
    /\ UNCHANGED <<wall_clock, sweep_due, peer_files, downloads, tracker_up, source_file,
                   nodeVars, storeVars, wireVars, stratVars, finalVars>>

\* The tracker goes down and stays down.
TrackerFails ==
    /\ tracker_up
    /\ tracker_up' = FALSE
    /\ UNCHANGED <<peer_state, peer_files, downloads, source_file, trackerVars,
                   nodeVars, storeVars, wireVars, stratVars, finalVars>>

\* Peer._get_blocks_in_network(): peer_blocks, what the known peers answer to
\* 'list'.  The peers of the swarm all run and connections succeed, so no
\* peer is discarded.
SwarmPeerBlocks(self) ==
    [port \in peer_state[self].peers_known \ {self} |-> peer_state[port].blocks]

\* What Peer._handle_request of the peer at port server sends for a
\* block_request, as the requester unpickles it: the bytes of the block file,
\* b'CHOKED', or nothing (NoData) when the block file cannot be read.
SwarmAnswer(server, requester_port, block_id) ==
    LET allowed == \/ requester_port \in peer_state[server].allowed_peers
                   \/ requester_port = peer_state[server].optimistic_peer
    IN IF allowed /\ block_id \in peer_state[server].blocks
       THEN IF block_id \in DOMAIN peer_files[server]
            THEN peer_files[server][block_id]
            ELSE NoData
       ELSE Choked

\* download_blocks_loop: "if result and result != b'CHOKED'"
BlockReceived(result) == result # NoData /\ result # <<>> /\ result # Choked

\* One iteration of Peer.update_peers_loop() of the peer at port self.
SwarmUpdatePeers(self) ==
    LET me == peer_state[self]
        listed_blocks == SwarmPeerBlocks(self)
        needed_blocks == SwarmBlocks \ me.blocks
        others == me.peers_known \ {self}
        scores == [port \in DOMAIN listed_blocks |->
                      Cardinality(needed_blocks \cap listed_blocks[port])]
    IN /\ me.peers_known # {}
       /\ IF needed_blocks = {}
          THEN \E selected \in SUBSET others :
                  /\ Cardinality(selected) = Min(MAX_UNCHOKED, Cardinality(others))
                  /\ peer_state' = [peer_state EXCEPT ![self].blocked_by = {},
                                                      ![self].allowed_peers = selected,
                                                      ![self].optimistic_peer = NoPeer]
          ELSE \E new_allowed \in TopScored(scores) :
               \E optimistic \in IF (DOMAIN scores) \ new_allowed = {} THEN {NoPeer}
                                 ELSE (DOMAIN scores) \ new_allowed :
                  peer_state' = [peer_state EXCEPT ![self].blocked_by = {},
                                                   ![self].allowed_peers = new_allowed,
                                                   ![self].optimistic_peer = optimistic]
       /\ UNCHANGED <<peer_files, downloads, tracker_up, source_file, trackerVars,
                      nodeVars, storeVars, wireVars, stratVars, finalVars>>

\* One iteration of the body of Peer.download_blocks_loop() of the peer at
\* port self: the candidates that list the rarest needed block are asked in a
\* shuffled order until one sends the block; those asked that answer CHOKED
\* are added to blocked_by.
SwarmDownload(self) ==
    LET me == peer_state[self]
        listed_blocks == SwarmPeerBlocks(self)
        needed == SwarmBlocks \ me.blocks
        Count(b) == Cardinality({port \in DOMAIN listed_blocks : b \in listed_blocks[port]})
        listed == {b \in needed : Count(b) > 0}
        rarest == {b \in listed : \A c \in listed : Count(b) <= Count(c)}
        candidates == me.allowed_peers \cup
                         (IF me.optimistic_peer # NoPeer THEN {me.optimistic_peer} ELSE {})
    IN /\ Cardinality(me.blocks) < Cardinality(SwarmBlocks)
       /\ IF rarest = {}
          THEN UNCHANGED <<peer_state, peer_files>>
          ELSE \E target \in rarest :
                  LET asked == {port \in candidates \cap DOMAIN listed_blocks :
                                   target \in listed_blocks[port]}
                      senders == {port \in asked :
                                     BlockReceived(SwarmAnswer(port, self, target))}
                      chokers == {port \in asked : SwarmAnswer(port, self, target) = Choked}
                  IN IF senders = {}
                     THEN /\ peer_state' = [peer_state EXCEPT
                                               ![self].blocked_by = @ \cup chokers]
                          /\ UNCHANGED peer_files
                     ELSE \E sender \in senders, before \in SUBSET (asked \ senders) :
                             /\ peer_state' = [peer_state EXCEPT
                                   ![self].blocked_by = @ \cup (before \cap chokers),
                                   ![self].blocks = @ \cup {target}]
                             /\ peer_files' = [peer_files EXCEPT ![self] =
                                   Put(@, target, SwarmAnswer(sender, self, target))]
       /\ UNCHANGED <<downloads, tracker_up, source_file, trackerVars,
                      nodeVars, storeVars, wireVars, stratVars, finalVars>>

\* The end of Peer.download_blocks_loop(): with all blocks owned the file is
\* assembled, once, and the peer goes on seeding.
SwarmAssemble(self) ==
    /\ ~(Cardinality(peer_state[self].blocks) < Cardinality(SwarmBlocks))
    /\ downloads[self] = NoData
    /\ downloads' = [downloads EXCEPT ![self] =
                        AssembleFile(peer_state[self].blocks, peer_files[self])]
    /\ UNCHANGED <<peer_state, peer_files, tracker_up, source_file, trackerVars,
                   nodeVars, storeVars, wireVars, stratVars, finalVars>>

\* The seed is started with every block of the partitioned file, the leech
\* with none; the tracker is up.
SwarmInit ==
    /\ source_file \in SwarmSources
    /\ peer_state = [port \in SwarmPorts |->
                        NewPeer(IF port = SeedPort THEN SwarmBlocks ELSE {})]
    /\ peer_files = [port \in SwarmPorts |->
                        IF port = SeedPort
                        THEN PartitionFile(source_file, SwarmBlockSize) ELSE <<>>]
    /\ downloads = [port \in SwarmPorts |-> NoData]
    /\ tracker_up = TRUE

SwarmNext ==
    \/ \E self \in SwarmPorts : SwarmContactTracker(self)
    \/ \E self \in SwarmPorts : SwarmUpdatePeers(self)
    \/ \E self \in SwarmPorts : SwarmDownload(self)
    \/ \E self \in SwarmPorts : SwarmAssemble(self)
    \/ TrackerFails

\* Every loop of every peer is a thread of its own and keeps being scheduled.
SwarmFairness ==
    \A self \in SwarmPorts :
        /\ WF_vars(SwarmContactTracker(self))
        /\ WF_vars(SwarmUpdatePeers(self))
        /\ WF_vars(SwarmDownload(self))
        /\ WF_vars(SwarmAssemble(self))

(***************************************************************************)
(* Specifications                                                          *)
(***************************************************************************)
\* BlockManager.__init__ of a peer whose Block Store is not exercised, with the
\* descriptor of a file of n blocks of one byte; total_blocks = n is what
\* set_from_bitfield(b'', n) leaves in a peer that owns nothing.
StoreOwningNothing(n) ==
    /\ fileinfo = [content |-> FileContent(n), block_size |-> 1]
    /\ blocks_owned = {}
    /\ total_blocks = n
    /\ block_size = DefaultBlockSize
    /\ file_name = FALSE
    /\ file_hash = NoHash
    /\ blocks_data = <<>>
    /\ block_files = <<>>
    /\ reconstructed = NoData
    /\ ret = Ret("init", TRUE)

\* No tracker, no peer of the other implementations and no swarm run.
NoTracker ==
    /\ wall_clock = 0
    /\ active_peers = <<>>
    /\ sweep_due = 0
    /\ peer_list = [to |-> NoPeer, peers |-> {}]

NoNode ==
    /\ known_peers = {}
    /\ last_peer_update = 0
    /\ manager_running = FALSE
    /\ known_blocks = [p \in TitPeers |-> {}]
    /\ unchoked = {}
    /\ tit_optimistic_peer = NoPeer
    /\ download_rates = <<>>
    /\ unchoke_history = [p \in TitPeers |-> <<>>]
    /\ tit_last_unchoke_update = 0
    /\ last_optimistic = 0

NoSwarm ==
    /\ peer_state = <<>>
    /\ peer_files = <<>>
    /\ downloads = <<>>
    /\ tracker_up = FALSE
    /\ source_file = <<>>

\* No minibit-final peer runs.
NoFinalPeer ==
    /\ blocks = {}
    /\ disk_blocks = {}
    /\ peers_known = {}
    /\ allowed_peers = {}
    /\ optimistic_peer = NoPeer
    /\ blocked_by = {}
    /\ reply = Reply(NoRequest, "nothing")
    /\ ThreadsStarted

\* The Block Store of one peer, from its construction.
InitStore ==
    /\ NoTracker
    /\ NoNode
    /\ NoSwarm
    /\ NoFinalPeer
    /\ StoreInit
    /\ WireInit
    /\ EmptyStrategies
    /\ EmptyNode
    /\ now = 0

SpecStore == InitStore /\ [][StoreNext]_vars

\* The connections of one peer and its message processor.
InitWire ==
    /\ NoTracker
    /\ NoNode
    /\ NoSwarm
    /\ NoFinalPeer
    /\ StoreOwningNothing(0)
    /\ WireInit
    /\ EmptyStrategies
    /\ EmptyNode
    /\ now = 0

SpecWire == InitWire /\ [][WireNext]_vars

\* The choke controller of a peer with the remote peers ChokePeers, none of
\* which has transferred a byte.
ChokePeers == {1, 2, 3}

InitChoke ==
    /\ NoTracker
    /\ NoNode
    /\ NoSwarm
    /\ NoFinalPeer
    /\ StoreOwningNothing(0)
    /\ WireInit
    /\ EmptyStrategies
    /\ EmptyNode
    /\ now = 0

NextChoke ==
    \/ \E p \in ChokePeers : ConnectPeer(p)
    \/ \E p \in ChokePeers, interested \in BOOLEAN : SetPeerInterested(p, interested)
    \/ \E p \in ChokePeers : RemovePeer(p)
    \/ UpdateUnchokedPeers
    \/ SelectOptimisticUnchoke
    \/ Tick

SpecChoke == InitChoke /\ [][NextChoke]_vars

\* The rate ledger of a peer connected to the remote peers LedgerPeers.
LedgerPeers == {1}
ByteCounts == {600, 1200}

InitLedger ==
    /\ NoTracker
    /\ NoNode
    /\ NoSwarm
    /\ NoFinalPeer
    /\ StoreOwningNothing(0)
    /\ connections = [p \in LedgerPeers |-> NewConnection]
    /\ message_queue = <<>>
    /\ readers = ReadersOf(connections)
    /\ EmptyStrategies
    /\ EmptyNode
    /\ now = 0

NextLedger ==
    \/ \E p \in LedgerPeers, n \in ByteCounts, success \in BOOLEAN :
          RecordDownload(p, n, success)
    \/ \E p \in LedgerPeers, n \in ByteCounts : RecordUpload(p, n)
    \/ \E p \in LedgerPeers : RemovePeer(p)
    \/ Tick

SpecLedger == InitLedger /\ [][NextLedger]_vars

\* A regular tick over the peers AllPeers, all connected and interested, each
\* with one of the transfer histories of Profiles behind it at MaxTime:
\* <<download_history, upload_history>>.
Profiles ==
    {<<<<>>, <<>>>>,
     <<(<<(<<MaxTime - 10, 3000>>)>>), <<>>>>,
     <<(<<(<<MaxTime - 10, 900>>)>>), <<>>>>,
     <<(<<(<<MaxTime - 10, 600>>)>>), <<(<<MaxTime - 10, 600>>)>>>>,
     <<(<<(<<MaxTime - 40, 900>>)>>), <<>>>>}

InitTitForTat ==
    /\ NoTracker
    /\ NoNode
    /\ NoSwarm
    /\ NoFinalPeer
    /\ StoreOwningNothing(0)
    /\ WireInit
    /\ now = MaxTime
    /\ \E profile \in [AllPeers -> Profiles] :
          \* the rates are those record_download and record_upload computed
          \* when the transfer was recorded
          LET RateAtRecord(history) ==
                 IF history = <<>> THEN ZeroRate
                 ELSE WindowRate(history, history[Len(history)][1], RateWindow)
          IN /\ download_history = [p \in AllPeers |-> profile[p][1]]
             /\ upload_history = [p \in AllPeers |-> profile[p][2]]
             /\ peer_download_rates = [p \in AllPeers |-> RateAtRecord(profile[p][1])]
             /\ peer_upload_rates = [p \in AllPeers |-> RateAtRecord(profile[p][2])]
             /\ successful_downloads = [p \in AllPeers |-> Len(profile[p][1])]
    /\ failed_requests = [p \in AllPeers |-> 0]
    /\ peer_blocks = [p \in AllPeers |-> {}]
    /\ unchoked_peers = {}
    /\ interested_peers = AllPeers
    /\ optimistic_unchoke_peer = NoPeer
    /\ last_unchoke_update = 0
    /\ last_optimistic_update = 0
    /\ connected_peers = AllPeers
    /\ pending_requests = [p \in AllPeers |-> {}]
    /\ active_downloads = <<>>
    /\ sent_requests = <<>>

NextTitForTat ==
    \/ UpdateUnchokedPeers
    \/ \E p \in AllPeers : RemovePeer(p)

SpecTitForTat == InitTitForTat /\ [][NextTitForTat]_vars

\* One scheduling pass of a peer that owns nothing of a file of the blocks
\* SchedBlocks, in every state the advertisements, the interest messages and
\* the choke controller can have put the remote peers SchedPeers in.
SchedPeers == {1, 2, 3}
SchedBlocks == {0, 1}

InitSched ==
    /\ NoTracker
    /\ NoNode
    /\ NoSwarm
    /\ NoFinalPeer
    /\ StoreOwningNothing(Cardinality(SchedBlocks))
    /\ WireInit
    /\ now = 0
    /\ \E advertised \in [SchedPeers -> SUBSET SchedBlocks] :
          peer_blocks = [p \in AllPeers |->
                            IF p \in SchedPeers THEN advertised[p] ELSE {}]
    /\ interested_peers \in SUBSET SchedPeers
    /\ unchoked_peers \in SUBSET SchedPeers
    /\ optimistic_unchoke_peer \in SchedPeers \cup {NoPeer}
    /\ peer_download_rates = [p \in AllPeers |-> ZeroRate]
    /\ peer_upload_rates = [p \in AllPeers |-> ZeroRate]
    /\ last_unchoke_update = 0
    /\ last_optimistic_update = 0
    /\ successful_downloads = [p \in AllPeers |-> 0]
    /\ failed_requests = [p \in AllPeers |-> 0]
    /\ download_history = [p \in AllPeers |-> <<>>]
    /\ upload_history = [p \in AllPeers |-> <<>>]
    /\ connected_peers = SchedPeers
    /\ pending_requests = [p \in AllPeers |-> {}]
    /\ active_downloads = <<>>
    /\ sent_requests = <<>>

NextSched ==
    \/ ProcessDownloads

SpecSched == InitSched /\ [][NextSched]_vars

\* One minibit-final peer, its tracker contacts and the remote peers FinalRemotes.
InitFinal ==
    /\ NoTracker
    /\ NoNode
    /\ NoSwarm
    /\ FinalInit
    /\ StoreOwningNothing(0)
    /\ WireInit
    /\ EmptyStrategies
    /\ EmptyNode
    /\ now = 0

SpecFinal == InitFinal /\ [][FinalNext]_vars

\* The threads of a minibit-final peer that owns block 0 or both blocks,
\* with their block files.
InitThreads ==
    /\ NoTracker
    /\ NoNode
    /\ NoSwarm
    /\ blocks \in {{0}, FinalBlocks}
    /\ disk_blocks = blocks
    /\ peers_known = {}
    /\ allowed_peers = {}
    /\ optimistic_peer = NoPeer
    /\ blocked_by = {}
    /\ reply = Reply(NoRequest, "nothing")
    /\ ThreadsStarted
    /\ StoreOwningNothing(0)
    /\ WireInit
    /\ EmptyStrategies
    /\ EmptyNode
    /\ now = 0

SpecThreads == InitThreads /\ [][ThreadsNext]_vars

\* The tracker, the peers contacting it and the clock.
InitTracker ==
    /\ TrackerInit
    /\ NoNode
    /\ NoSwarm
    /\ NoFinalPeer
    /\ StoreOwningNothing(0)
    /\ WireInit
    /\ EmptyStrategies
    /\ EmptyNode
    /\ now = 0

SpecTracker == InitTracker /\ [][TrackerNext]_vars

\* The peer of algoritmos_rarest_first_e_tit_for_tat and the clock.
InitNode ==
    /\ NodeInit
    /\ NoTracker
    /\ NoSwarm
    /\ NoFinalPeer
    /\ StoreOwningNothing(0)
    /\ WireInit
    /\ EmptyStrategies
    /\ EmptyNode
    /\ now = 0

SpecNode == InitNode /\ [][NodeNext]_vars

\* The swarm of a seed and a leech, every thread scheduled fairly.
InitSwarm ==
    /\ SwarmInit
    /\ TrackerInit
    /\ NoNode
    /\ NoFinalPeer
    /\ StoreOwningNothing(0)
    /\ WireInit
    /\ EmptyStrategies
    /\ EmptyNode
    /\ now = 0

SpecSwarm == InitSwarm /\ [][SwarmNext]_vars /\ SwarmFairness

\* One scheduling pass of a peer that is connected to the remote peers
\* ReqPeers and owns nothing of a file of the blocks SchedBlocks, in every
\* state the BITFIELD, INTERESTED, CHOKE and UNCHOKE messages received, the
\* choke controller and the recorded request failures can have put it in.
ReqPeers == {1, 2}
FailureCounts == {0, 6}

InitRequest ==
    /\ NoTracker
    /\ NoNode
    /\ NoSwarm
    /\ NoFinalPeer
    /\ StoreOwningNothing(Cardinality(SchedBlocks))
    /\ \E they_choke \in [ReqPeers -> BOOLEAN] :
          connections = [p \in ReqPeers |->
                            [NewConnection EXCEPT !.choked = they_choke[p]]]
    /\ message_queue = <<>>
    /\ readers = ReadersOf(connections)
    /\ now = 0
    /\ \E advertised \in [ReqPeers -> SUBSET SchedBlocks] :
          peer_blocks = [p \in AllPeers |->
                            IF p \in ReqPeers THEN advertised[p] ELSE {}]
    /\ interested_peers \in SUBSET ReqPeers
    /\ unchoked_peers \in SUBSET ReqPeers
    /\ optimistic_unchoke_peer = NoPeer
    /\ peer_download_rates = [p \in AllPeers |-> ZeroRate]
    /\ peer_upload_rates = [p \in AllPeers |-> ZeroRate]
    /\ last_unchoke_update = 0
    /\ last_optimistic_update = 0
    /\ successful_downloads = [p \in AllPeers |-> 0]
    /\ \E failed \in [ReqPeers -> FailureCounts] :
          failed_requests = [p \in AllPeers |-> IF p \in ReqPeers THEN failed[p] ELSE 0]
    /\ download_history = [p \in AllPeers |-> <<>>]
    /\ upload_history = [p \in AllPeers |-> <<>>]
    /\ connected_peers = ReqPeers
    /\ pending_requests = [p \in AllPeers |-> {}]
    /\ active_downloads = <<>>
    /\ sent_requests = <<>>

NextRequest ==
    \/ ProcessDownloads

SpecRequest == InitRequest /\ [][NextRequest]_vars

\* The request scheduler of a peer whose remote peers ReqPeers are interested
\* and unchoked and advertise any blocks of SchedBlocks, while no PIECE ever
\* arrives.  The main loop runs _process_downloads once a second for as long
\* as the peer runs, and time passes.
InitTimeout ==
    /\ NoTracker
    /\ NoNode
    /\ NoSwarm
    /\ NoFinalPeer
    /\ StoreOwningNothing(Cardinality(SchedBlocks))
    /\ connections = [p \in ReqPeers |-> [NewConnection EXCEPT !.choked = FALSE]]
    /\ message_queue = <<>>
    /\ readers = ReadersOf(connections)
    /\ now = 0
    /\ \E advertised \in [ReqPeers -> SUBSET SchedBlocks] :
          peer_blocks = [p \in AllPeers |->
                            IF p \in ReqPeers THEN advertised[p] ELSE {}]
    /\ interested_peers = ReqPeers
    /\ unchoked_peers = ReqPeers
    /\ optimistic_unchoke_peer = NoPeer
    /\ peer_download_rates = [p \in AllPeers |-> ZeroRate]
    /\ peer_upload_rates = [p \in AllPeers |-> ZeroRate]
    /\ last_unchoke_update = 0
    /\ last_optimistic_update = 0
    /\ successful_downloads = [p \in AllPeers |-> 0]
    /\ failed_requests = [p \in AllPeers |-> 0]
    /\ download_history = [p \in AllPeers |-> <<>>]
    /\ upload_history = [p \in AllPeers |-> <<>>]
    /\ connected_peers = ReqPeers
    /\ pending_requests = [p \in AllPeers |-> {}]
    /\ active_downloads = <<>>
    /\ sent_requests = <<>>

NextTimeout ==
    \/ ProcessDownloads
    \/ Tick

TimeoutFairness == WF_vars(ProcessDownloads) /\ WF_vars(Tick)

SpecTimeout == InitTimeout /\ [][NextTimeout]_vars /\ TimeoutFairness

\* One scheduling pass of a peer that owns nothing of a file of the blocks
\* BatchBlocks, whose one remote peer is interested and unchoked and
\* advertises any of them.
BatchBlocks == {0, 1, 2, 3, 4, 5}
BatchPeers == {1}

InitBatch ==
    /\ NoTracker
    /\ NoNode
    /\ NoSwarm
    /\ NoFinalPeer
    /\ StoreOwningNothing(Cardinality(BatchBlocks))
    /\ WireInit
    /\ now = 0
    /\ \E advertised \in SUBSET BatchBlocks :
          peer_blocks = [p \in AllPeers |-> IF p \in BatchPeers THEN advertised ELSE {}]
    /\ interested_peers = BatchPeers
    /\ unchoked_peers \in SUBSET BatchPeers
    /\ optimistic_unchoke_peer = NoPeer
    /\ peer_download_rates = [p \in AllPeers |-> ZeroRate]
    /\ peer_upload_rates = [p \in AllPeers |-> ZeroRate]
    /\ last_unchoke_update = 0
    /\ last_optimistic_update = 0
    /\ successful_downloads = [p \in AllPeers |-> 0]
    /\ failed_requests = [p \in AllPeers |-> 0]
    /\ download_history = [p \in AllPeers |-> <<>>]
    /\ upload_history = [p \in AllPeers |-> <<>>]
    /\ connected_peers = BatchPeers
    /\ pending_requests = [p \in AllPeers |-> {}]
    /\ active_downloads = <<>>
    /\ sent_requests = <<>>

NextBatch ==
    \/ ProcessDownloads

SpecBatch == InitBatch /\ [][NextBatch]_vars

\* send_choke(peer_id) and send_unchoke(peer_id) record the message sent in
\* the choked flag of the connection of peer_id
SendChokeState(conns, peer_ids, choke) ==
    [p \in DOMAIN conns |->
        IF p \in peer_ids THEN [conns[p] EXCEPT !.choked = choke] ELSE conns[p]]

\* PeerNode._update_strategies(): update_unchoked_peers, UNCHOKE to the newly
\* unchoked and CHOKE to the newly choked peers, select_optimistic_unchoke and
\* UNCHOKE to the peer it returns.
UpdateStrategies ==
    LET eligible_peers == connected_peers \cap interested_peers
        regular_due == ~(now - last_unchoke_update < unchoke_interval)
        new_unchoked == IF regular_due /\ eligible_peers # {}
                        THEN NewUnchoked(eligible_peers) ELSE unchoked_peers
        newly_unchoked == new_unchoked \ unchoked_peers
        newly_choked == unchoked_peers \ new_unchoked
        optimistic_due == ~(now - last_optimistic_update < optimistic_interval)
        optimistic_eligible == eligible_peers \ new_unchoked
        returned == IF ~optimistic_due THEN {optimistic_unchoke_peer}
                    ELSE IF optimistic_eligible = {} THEN {NoPeer}
                    ELSE optimistic_eligible
    IN \E selected_peer \in returned :
          /\ last_unchoke_update' = IF regular_due THEN now ELSE last_unchoke_update
          /\ unchoked_peers' = new_unchoked
          /\ last_optimistic_update' =
                IF optimistic_due THEN now ELSE last_optimistic_update
          /\ optimistic_unchoke_peer' = selected_peer
          /\ connections' =
                SendChokeState(
                   SendChokeState(SendChokeState(connections, newly_unchoked, FALSE),
                                  newly_choked, TRUE),
                   {selected_peer} \ {NoPeer}, FALSE)
          /\ UNCHANGED <<now, peer_blocks, peer_download_rates, peer_upload_rates,
                         interested_peers, successful_downloads, failed_requests,
                         download_history, upload_history, connected_peers,
                         pending_requests, active_downloads, sent_requests,
                         message_queue, readers, storeVars, finalVars,
                         trackerVars, nodeVars, swarmVars>>

\* The clock of a peer that has been up for up to MaxUptime seconds.
MaxUptime == 60
UptimeTick ==
    /\ now + TimeStep <= MaxUptime
    /\ now' = now + TimeStep
    /\ UNCHANGED <<peer_blocks, peer_download_rates, peer_upload_rates, unchoked_peers,
                   interested_peers, optimistic_unchoke_peer, last_unchoke_update,
                   last_optimistic_update, successful_downloads, failed_requests,
                   download_history, upload_history, connected_peers,
                   pending_requests, active_downloads, sent_requests,
                   storeVars, wireVars, finalVars,
                   trackerVars, nodeVars, swarmVars>>

\* The choke controller of a running peer connected to the remote peers
\* AllPeers, which send INTERESTED and NOT_INTERESTED and nothing else.
InitUnchoke ==
    /\ NoTracker
    /\ NoNode
    /\ NoSwarm
    /\ NoFinalPeer
    /\ StoreOwningNothing(0)
    /\ connections = [p \in AllPeers |-> NewConnection]
    /\ message_queue = <<>>
    /\ readers = ReadersOf(connections)
    /\ EmptyStrategies
    /\ connected_peers = AllPeers
    /\ pending_requests = [p \in AllPeers |-> {}]
    /\ active_downloads = <<>>
    /\ sent_requests = <<>>
    /\ now = 0

NextUnchoke ==
    \/ \E p \in AllPeers, interested \in BOOLEAN : SetPeerInterested(p, interested)
    \/ UpdateStrategies
    \/ UptimeTick

SpecUnchoke == InitUnchoke /\ [][NextUnchoke]_vars

\* The TitForTat object of a peer that owns nothing and knows the peers
\* TitPeers, of which any may hold the block it needs.
InitTitUnchoke ==
    /\ NoTracker
    /\ NoSwarm
    /\ NoFinalPeer
    /\ StoreOwningNothing(0)
    /\ WireInit
    /\ EmptyStrategies
    /\ EmptyNode
    /\ now = 0
    /\ known_peers = TitPeers
    /\ last_peer_update = 0
    /\ manager_running = FALSE
    /\ \E holders \in SUBSET TitPeers :
          known_blocks = [p \in TitPeers |-> IF p \in holders THEN TitBlocks ELSE {}]
    /\ NewTitForTat(0)

NextTitUnchoke ==
    \/ ClockTick
    \/ \E p \in TitPeers, n \in TitBlockLens : UpdateTitDownloadRate(p, n)
    \/ UpdateUnchoked

SpecTitUnchoke == InitTitUnchoke /\ [][NextTitUnchoke]_vars

\* The rate ledger of TitForTat while download_block records blocks of the
\* lengths len(data) of RateBlockLens.
RateBlockLens == {256, 512}

InitRates ==
    /\ NoTracker
    /\ NoSwarm
    /\ NoFinalPeer
    /\ StoreOwningNothing(0)
    /\ WireInit
    /\ EmptyStrategies
    /\ EmptyNode
    /\ now = 0
    /\ known_peers = TitPeers
    /\ last_peer_update = 0
    /\ manager_running = TRUE
    /\ known_blocks = [p \in TitPeers |-> TitBlocks]
    /\ NewTitForTat(0)

NextRates ==
    \/ \E p \in TitPeers, n \in RateBlockLens : UpdateTitDownloadRate(p, n)

SpecRates == InitRates /\ [][NextRates]_vars

\* The choke controller of a running peer that connected to the remote peers
\* ChokePeers, whose connections can be lost.
InitLive ==
    /\ NoTracker
    /\ NoNode
    /\ NoSwarm
    /\ NoFinalPeer
    /\ StoreOwningNothing(0)
    /\ connections = [p \in ChokePeers |-> NewConnection]
    /\ message_queue = <<>>
    /\ readers = ReadersOf(connections)
    /\ EmptyStrategies
    /\ connected_peers = ChokePeers
    /\ pending_requests = [p \in AllPeers |-> {}]
    /\ active_downloads = <<>>
    /\ sent_requests = <<>>
    /\ now = 0

NextLive ==
    \/ \E p \in ChokePeers, interested \in BOOLEAN : SetPeerInterested(p, interested)
    \/ \E p \in ChokePeers : ReaderClose(p)
    \/ UpdateStrategies
    \/ Tick

SpecLive == InitLive /\ [][NextLive]_vars


(***************************************************************************)
(* Claims                                                                  *)
(***************************************************************************)

\* C2: the owned-block set only grows: a block id owned after one Block Store
\* operation is owned after every later operation.
OwnedOnlyGrows == [][blocks_owned \subseteq blocks_owned']_vars

\* C3: whenever add_block(b, bytes) makes block b owned, hash(bytes) is the
\* expected hash of block b; an insert of a block not yet owned whose bytes do
\* not match the expected hash fails and leaves the owned set and the stored
\* bytes unchanged.
AddBlockVerifiesHash ==
    [][\A b \in (-1)..FileBlocks : \A data \in PieceData(b) :
         AddBlock(b, data) =>
            /\ (b \in blocks_owned' \ blocks_owned) => ValidateBlock(fileinfo, b, data)
            /\ (b \notin blocks_owned /\ ~ValidateBlock(fileinfo, b, data)) =>
                  /\ ~ret'.ok
                  /\ UNCHANGED <<blocks_owned, blocks_data, block_files>>]_vars

\* The bitfield b with the bit of block i set (BITFIELD(b \cup {i})): bit i is
\* bit 7 - i % 8 of byte i \div 8; the bitfield is extended by zero bytes up
\* to that byte.
SetBit(b, i) ==
    [k \in 1..Max(Len(b), (i \div 8) + 1) |->
        LET byte == IF k <= Len(b) THEN b[k] ELSE 0
        IN IF k = (i \div 8) + 1 /\ (byte \div Pow2(7 - (i % 8))) % 2 = 0
           THEN byte + Pow2(7 - (i % 8))
           ELSE byte]

\* The bitfields and block ids C9 is checked for.
ClaimBitfields == WireBitfields \cup {<<0>>, <<255>>}
ClaimBlockIds == {0, 2, 7, 9, 15}

\* C9: on every connection, for every bitfield b and block id i, BITFIELD(b)
\* followed by HAVE(i) leaves the advertised block set that BITFIELD(b \cup {i})
\* alone leaves.
BitfieldThenHave ==
    \A p \in DOMAIN connections : \A b \in ClaimBitfields : \A i \in ClaimBlockIds :
        UpdateConnectionState(
            UpdateConnectionState(connections[p], Msg("bitfield", b, NoBlock)),
            Msg("have", <<>>, i)).blocks_owned
        = UpdateConnectionState(connections[p],
                                Msg("bitfield", SetBit(b, i), NoBlock)).blocks_owned

\* C9 witness: a connection has processed BITFIELD(0xA0) and then HAVE(9).
BitfieldThenHaveWitness ==
    \E p \in DOMAIN connections :
        /\ connections[p].bitfield = <<160>>
        /\ connections[p].blocks_owned = {0, 2, 9}

\* C1: in every state the choke controller reaches by regular ticks,
\* optimistic ticks, interest changes and remove_peer, the regular unchoke set
\* has at most max_unchoked = 4 members and the optimistic peer is not one of
\* them.
OptimisticNotRegular ==
    /\ Cardinality(unchoked_peers) <= max_unchoked
    /\ optimistic_unchoke_peer \notin unchoked_peers

\* The download rate of peer q over the rate window at the current time.
DownRate(q) == WindowRate(download_history[q], now, RateWindow)

\* C5: a regular tick that runs with more than max_unchoked = 4 interested
\* connected peers leaves unchoked exactly 4 of them, and none of the peers it
\* leaves choked has a higher download rate over the rate window than a peer
\* it unchokes.
UnchokedAreFastest ==
    [][(/\ UpdateUnchokedPeers
        /\ now - last_unchoke_update >= unchoke_interval
        /\ Cardinality(connected_peers \cap interested_peers) > max_unchoked)
       => /\ unchoked_peers' \subseteq connected_peers \cap interested_peers
          /\ Cardinality(unchoked_peers') = max_unchoked
          /\ \A p \in unchoked_peers' :
                \A q \in (connected_peers \cap interested_peers) \ unchoked_peers' :
                   ~RateGreater(DownRate(q), DownRate(p))]_vars

\* The missing blocks a REQUEST can go out for in the current state: not yet
\* being downloaded, and advertised by an interested peer that
\* should_request_from_peer accepts (in the regular unchoke set or the
\* optimistic peer, with an acceptable success ratio).
Requestable ==
    {b \in GetMissingBlocks :
        /\ b \notin DOMAIN active_downloads
        /\ \E p \in CandidatePeers(b) : ShouldRequestFromPeer(p, b)}

\* the number of peers that advertise block b
Advertisers(b) == Cardinality({p \in AllPeers : b \in peer_blocks[p]})

NoUnadvertisedBlockSelected ==
    \A missing_blocks \in SUBSET SchedBlocks : \A max_blocks \in 1..MaxBlocks :
        LET selected == SelectRarestBlocks(missing_blocks, max_blocks)
        IN \A k \in 1..Len(selected) : Advertisers(selected[k]) > 0

\* C8: at every time the download rate read for peer q counts exactly the
\* bytes received from q in the last 30 s, and when 30 s have passed with no
\* byte from q both peer_download_rates[q] and the tit-for-tat score of q are 0.
RateCountsLast30s ==
    \A q \in LedgerPeers :
        LET recent == RecentHistory(download_history[q], now, RateWindow)
        IN /\ peer_download_rates[q][1] = SumBytes(recent)
           /\ recent = <<>> => CalculateTitForTatScore(q)[1] = 0

\* C10: record_download(Z, ., ., success=False) adds exactly 1 to the
\* failed-request counter of Z, leaves the download history, the download
\* rate credit and the successful-download counter of Z as they were, leaves
\* the own bitfield unchanged and leaves the connection to Z registered and
\* active.
RejectedPieceNotCredited ==
    [][\A z \in LedgerPeers : \A n \in ByteCounts :
          RecordDownload(z, n, FALSE)
          => /\ failed_requests'[z] = failed_requests[z] + 1
             /\ download_history'[z] = download_history[z]
             /\ successful_downloads'[z] = successful_downloads[z]
             /\ Bitfield(blocks_owned', total_blocks') = Bitfield(blocks_owned, total_blocks)
             /\ blocks_owned' = blocks_owned
             /\ z \in DOMAIN connections'
             /\ connections'[z] = connections[z]
             /\ connections'[z].is_active]_vars

\* C10 witness: a PIECE of Z was rejected after one was accepted: one failure
\* is counted, one download is credited and the connection is active.
RejectedPieceWitness ==
    \E z \in LedgerPeers :
        /\ failed_requests[z] = 1
        /\ successful_downloads[z] = 1
        /\ Len(download_history[z]) = 1
        /\ z \in DOMAIN connections
        /\ connections[z].is_active

\* C4: on every block_request, the block bytes are sent if and only if the
\* requester is in allowed_peers or is the optimistic peer and the block is
\* owned; in every other case the CHOKED sentinel is sent.
ServesIffAllowedAndOwned ==
    [][\A request \in FinalRequests :
          (request.type = "block_request" /\ HandleRequest(request))
          => LET allowed == \/ request.requester_port \in allowed_peers
                            \/ request.requester_port = optimistic_peer
                 owned == request.block_id \in blocks
             IN /\ (reply'.sent = "block") <=> (allowed /\ owned)
                /\ ~(allowed /\ owned) => reply'.sent = "CHOKED"]_vars

\* C11: is_complete() changes from false to true only at a step that makes
\* the N-th distinct block owned, and once it is true it is true in every
\* later state.
CompleteOnceAndForAll ==
    [][/\ IsComplete => IsComplete'
       /\ (~IsComplete /\ IsComplete')
             => /\ Cardinality(blocks_owned') = total_blocks'
                /\ blocks_owned \subseteq blocks_owned'
                /\ blocks_owned' # blocks_owned]_vars

\* C12: in every state get_missing_blocks() returns, in ascending order and
\* without repetition, exactly the ids of 0..N-1 that are not owned; no id it
\* returns is owned.
MissingIsSortedComplement ==
    LET missing == GetMissingBlocksList
    IN /\ \A i, j \in 1..Len(missing) : i < j => missing[i] < missing[j]
       /\ {missing[i] : i \in 1..Len(missing)} =
             {b \in 0..(total_blocks - 1) : b \notin blocks_owned}
       /\ \A i \in 1..Len(missing) : missing[i] \notin blocks_owned

\* C12 witness: of three blocks the middle one is owned and the list is
\* <<0, 2>>.
MissingIsSortedComplementWitness ==
    /\ total_blocks = 3
    /\ blocks_owned = {1}
    /\ GetMissingBlocksList = <<0, 2>>

\* C13: add_block(b, bytes) for a block b that is already owned returns True
\* and leaves the owned set, the bytes stored for every block (in memory and
\* on disk) and is_complete() as they were.
AddBlockIdempotent ==
    [][(/\ ret'.op = "add_block"
        /\ \E b \in blocks_owned : \E data \in {TamperedData, <<>>} : AddBlock(b, data))
       => /\ ret'.ok
          /\ UNCHANGED <<blocks_owned, blocks_data, block_files, reconstructed>>
          /\ IsComplete' = IsComplete]_vars

\* C13 witness: add_block returned True in a complete, named store with no
\* reconstructed file: an add_block that inserts the last block writes the
\* output file, so this one was for a block already owned.
AddBlockIdempotentWitness ==
    /\ ret = Ret("add_block", TRUE)
    /\ IsComplete
    /\ file_name
    /\ reconstructed = NoData

TrailingBitsRejected ==
    [][(/\ message_queue # <<>>
        /\ message_queue' = Tail(message_queue)
        /\ Head(message_queue)[2].type = "bitfield"
        /\ Head(message_queue)[1] \in DOMAIN connections')
       => LET p == Head(message_queue)[1]
              bitfield == Head(message_queue)[2].bitfield
          IN \A N \in 1..(8 * Len(bitfield)) :
                (N % 8 # 0 /\ (N + 7) \div 8 = Len(bitfield))
                => \A b \in connections'[p].blocks_owned : b < N]_vars

\* C20: every block_request that _handle_request took was answered, before
\* the connection was closed, with the block bytes or with CHOKED.
BlockRequestAnswered ==
    reply.request.type = "block_request" => reply.sent \in {"block", "CHOKED"}

\* C19: no peer list the tracker sends holds a peer whose last contact with
\* the tracker is more than TRACKER_TIMEOUT seconds old.
ListedPeersAreFresh ==
    [][\A peer_port \in TrackerPorts, selected \in SUBSET TrackerPorts :
          HandlePeerConnection(peer_port, selected)
          => \A p \in selected : wall_clock - active_peers[p] <= TRACKER_TIMEOUT]_vars

\* C18: a tracker contact that fails (the request raises, or the status is
\* not 200) leaves the known peers as they were and the download loop
\* running.
FailedContactNotFatal ==
    [][\A response \in TrackerResponses :
          (/\ UpdateDue
           /\ response.raised \/ response.status_code # 200
           /\ DownloadManager(response))
          => /\ known_peers' = known_peers
             /\ manager_running']_vars

\* The leech owns every block and its assembled file is the seed's source
\* file.
LeechDone ==
    /\ peer_state[LeechPort].blocks = SwarmBlocks
    /\ downloads[LeechPort] = source_file

\* C16: with the tracker up and every thread scheduled fairly the leech
\* eventually owns all N blocks and its assembled file is the concatenation
\* of the blocks 0..N-1, the seed's source file.
LeechCompletes == ([]tracker_up) => <>LeechDone

\* C17: from a state where the tracker is down for good and the leech knows
\* the seed, the leech eventually completes its download.
LeechCompletesInOutage ==
    (~tracker_up /\ SeedPort \in peer_state[LeechPort].peers_known) ~> LeechDone

\* C30: while a connection lives, no step removes a block id from the
\* advertised set of its remote peer.
AdvertisedOnlyGrows ==
    [][\A p \in (DOMAIN connections) \cap (DOMAIN connections') :
          connections'[p].socket = connections[p].socket
             => connections[p].blocks_owned \subseteq connections'[p].blocks_owned]_vars

\* C25: a regular tick that runs while no connected peer is interested
\* leaves the regular unchoke set empty, and an optimistic tick that runs
\* then leaves the optimistic slot empty.
NoInterestEmptiesBothSets ==
    [][connected_peers \cap interested_peers = {}
       => /\ (UpdateUnchokedPeers /\ ~(now - last_unchoke_update < unchoke_interval))
                => unchoked_peers' = {}
          /\ (SelectOptimisticUnchoke
                /\ ~(now - last_optimistic_update < optimistic_interval))
                => optimistic_unchoke_peer' = NoPeer]_vars

\* the REQUESTs a step appends to those sent
NewRequests == SubSeq(sent_requests', Len(sent_requests) + 1, Len(sent_requests'))

LastSentUnchoke == {p \in DOMAIN connections : ~connections[p].choked}

\* C26: the peers whose last choke-state message from us was UNCHOKE are
\* exactly the members of the regular unchoke set and the optimistic peer.
UnchokeMessagesMatchSets ==
    LastSentUnchoke = unchoked_peers \cup ({optimistic_unchoke_peer} \ {NoPeer})

\* the time of the oldest unchoke of a peer with an unchoke history
OldestUnchoke(p) ==
    CHOOSE t \in {unchoke_history[p][k] : k \in DOMAIN unchoke_history[p]} :
       \A k \in DOMAIN unchoke_history[p] : t <= unchoke_history[p][k]

\* C27: the peer _update_optimistic_unchoke selects is not in the regular
\* unchoked set; it has no unchoke history if a known peer has none, and
\* otherwise no known peer has an older unchoke history.
OptimisticOutsideRegularOldestFirst ==
    [][unchoke_history' # unchoke_history =>
          /\ tit_optimistic_peer' \notin unchoked'
          /\ IF \E p \in known_peers : unchoke_history[p] = <<>>
             THEN unchoke_history[tit_optimistic_peer'] = <<>>
             ELSE \A p \in known_peers :
                     OldestUnchoke(tit_optimistic_peer') <= OldestUnchoke(p)]_vars

\* the download rate of a peer: download_rates is a defaultdict(int)
RateOf(p) ==
    IF \E k \in DOMAIN download_rates : download_rates[k][1] = p
    THEN download_rates[CHOOSE k \in DOMAIN download_rates : download_rates[k][1] = p][2]
    ELSE 0

\* the known peers that hold a block the local peer still needs
NeededHolders == {p \in known_peers : HoldsNeededBlock(p)}

\* C28: the set _update_regular_unchoke leaves holds 4 of the known peers
\* that hold a needed block, or all of them when they are fewer, and none
\* left out has a higher download rate than one of the set.
RegularSetIsTopFour ==
    [][tit_last_unchoke_update' # tit_last_unchoke_update =>
          /\ unchoked' \subseteq NeededHolders
          /\ Cardinality(unchoked') = Min(RegularSlots, Cardinality(NeededHolders))
          /\ \A p \in unchoked', q \in NeededHolders \ unchoked' :
                RateOf(p) >= RateOf(q)]_vars

\* C34: the choked flag of a connection changes in no step of the wire, which
\* receives and applies the messages of the remote peer and has no choke
\* controller.
ChokedByUsOnlyByController ==
    [][\A p \in (DOMAIN connections) \cap (DOMAIN connections') :
          connections'[p].socket = connections[p].socket
             => connections'[p].choked = connections[p].choked]_vars

\* C32: a zero-length frame received from a registered peer leaves the peer
\* registered and its connection as it was: active, with the same bitfield,
\* advertised blocks, choke and interest flags.
KeepAliveChangesNothing ==
    [][\A p \in DOMAIN connections :
          ReceiveKeepAlive(p)
             => /\ p \in DOMAIN connections'
                /\ connections'[p] = connections[p]]_vars

\* C33: a strategy update whose regular tick is due leaves only peers with a
\* registered connection in the regular unchoke set, and one whose optimistic
\* tick is due leaves the optimistic slot empty or with such a peer.
UnchokedPeersAreLive ==
    [][UpdateStrategies =>
          /\ ~(now - last_unchoke_update < unchoke_interval)
                => unchoked_peers' \subseteq DOMAIN connections'
          /\ ~(now - last_optimistic_update < optimistic_interval)
                => optimistic_unchoke_peer' \in (DOMAIN connections') \cup {NoPeer}]_vars

\* C31: a connection is registered under a peer id, and its messages are
\* dispatched from then on, only in a step in which the HANDSHAKE of that peer
\* is received on it, for the sockets the peer opened as for the accepted
\* ones.
EstablishedOnlyAfterHandshake ==
    [][\A p \in DOMAIN connections' :
          (p \notin DOMAIN connections
              \/ connections'[p].socket # connections[p].socket)
             => HandleIncomingConnection("handshake", p)]_vars

\* C39: the entry of a peer is removed only in a step in which the reader of
\* the connection registered under that peer ends.
RemovedOnlyByRegisteredReader ==
    [][\A p \in DOMAIN connections :
          p \notin DOMAIN connections'
             => /\ <<p, connections[p].socket>> \in readers
                /\ <<p, connections[p].socket>> \notin readers']_vars

\* C38: the message queue is first in, first out under every interleaving of
\* the readers with the message processor: a step that queues a message puts
\* it behind the messages already waiting, a step that takes one takes the
\* oldest and applies it to the connection of its peer, and no other step
\* changes the state of a connection that stays registered.  So the messages
\* of one connection are applied in the order it received them, a HAVE
\* received after a BITFIELD after it.
ReceiveOrderKept ==
    [][/\ Len(message_queue') > Len(message_queue)
            => /\ Len(message_queue') = Len(message_queue) + 1
               /\ SubSeq(message_queue', 1, Len(message_queue)) = message_queue
               /\ connections' = connections
       /\ Len(message_queue') < Len(message_queue)
            => /\ message_queue' = Tail(message_queue)
               /\ DOMAIN connections' = DOMAIN connections
               /\ \A p \in DOMAIN connections :
                     connections'[p] =
                        IF p = Head(message_queue)[1]
                        THEN UpdateConnectionState(connections[p],
                                                   Head(message_queue)[2])
                        ELSE connections[p]
       /\ Len(message_queue') = Len(message_queue)
            => /\ message_queue' = message_queue
               /\ \A p \in (DOMAIN connections) \cap (DOMAIN connections') :
                     connections'[p].socket = connections[p].socket
                        => connections'[p] = connections[p]]_vars

\* C38 witness: a connection has had BITFIELD(0x41 0x80) applied and then the
\* HAVE(9) received after it.
ReceiveOrderWitness ==
    \E p \in DOMAIN connections :
        /\ connections[p].bitfield = <<65, 128>>
        /\ connections[p].blocks_owned = {1, 7, 8, 9}

\* C40: whenever a peer of the swarm is authorized by another that owns a
\* block and has its block file, the reply of the owner to a block_request
\* for it, the bytes of the block file whatever they are, is taken for the
\* block by download_blocks_loop of the requester, and not for a denial.
ServedBlockAccepted ==
    \A server \in SwarmPorts : \A requester \in SwarmPorts \ {server} :
        \A block_id \in peer_state[server].blocks \cap DOMAIN peer_files[server] :
            (\/ requester \in peer_state[server].allowed_peers
             \/ requester = peer_state[server].optimistic_peer)
               => /\ SwarmAnswer(server, requester, block_id)
                        = peer_files[server][block_id]
                  /\ BlockReceived(SwarmAnswer(server, requester, block_id))

\* C35: in every interleaving of the update thread with the server, a
\* block_request is answered from a pair (allowed_peers, optimistic_peer) that
\* one tick published: the update thread is not between its two assignments,
\* at most MAX_UNCHOKED peers are allowed, and the optimistic peer is not one
\* of them.
ServeReadsOneTick ==
    [][\A request \in ThreadRequests :
          (request.type = "block_request" /\ ServerAccept(request))
             => /\ update_thread.pc # "optimistic"
                /\ Cardinality(allowed_peers) <= MAX_UNCHOKED
                /\ optimistic_peer \notin allowed_peers]_vars

\* C35 witness: the optimistic peer was served a block from a pair of
\* MAX_UNCHOKED allowed peers and an optimistic one while the update thread
\* waits for the lock with the pair of its next tick.
ServeReadsOneTickWitness ==
    /\ update_thread.pc = "acquire"
    /\ Cardinality(allowed_peers) = MAX_UNCHOKED
    /\ optimistic_peer # NoPeer
    /\ update_thread.new_allowed # allowed_peers
    /\ reply.sent = "block"
    /\ reply.request.requester_port = optimistic_peer

\* C36: once running is false, no connection is accepted.
NoAcceptAfterStop ==
    [][~running => \A request \in ThreadRequests : ~ServerAccept(request)]_vars

\* C37: every download recorded for a peer adds its byte count to the total
\* the rate ledger holds for that peer.
NoRateUpdateLost ==
    [][\A p \in TitPeers, n \in RateBlockLens :
          UpdateTitDownloadRate(p, n) => RateOf(p)' = RateOf(p) + n]_vars

====
